---- MODULE Spec2Model ----
(***************************************************************************)
(* ScholarAI: the two chat request handlers (api/ollama, api/gemini) with  *)
(* their file normalizers, and the chat client (app/page.tsx).             *)
(*                                                                         *)
(* JavaScript strings are TLA+ strings: Len, SubSeq and \o act on them as  *)
(* on sequences of characters.  Two characters that cannot be written in   *)
(* a TLA+ string literal are written with stand-ins of the same length:    *)
(* "~" is U+0000 (the null character) and "^" is U+FEFF (the byte order    *)
(* mark).  The one non-ASCII character of the local system preamble, an    *)
(* em dash, is written "-".                                                *)
(***************************************************************************)
EXTENDS Integers, Sequences, FiniteSets

NUL == "~"
BOM == "^"

(***************************************************************************)
(* String primitives of the JavaScript runtime used by the handlers.       *)
(***************************************************************************)
Min2(a, b) == IF a <= b THEN a ELSE b

Max2(a, b) == IF a >= b THEN a ELSE b

\* The characters of s at the 1-based positions a..b that exist in s.
Sub(s, a, b) ==
    IF Max2(a, 1) > Min2(b, Len(s)) THEN ""
    ELSE SubSeq(s, Max2(a, 1), Min2(b, Len(s)))

\* s.charAt(i - 1): the character at 1-based position i, "" past the end.
At(s, i) == Sub(s, i, i)

SetMin(S) == CHOOSE i \in S : \A j \in S : i <= j

RECURSIVE Rep(_, _)
\* String.prototype.repeat: c repeated k times.
Rep(c, k) ==
    IF k <= 0 THEN ""
    ELSE IF k = 1 THEN c
    ELSE LET h == Rep(c, k \div 2)
         IN  IF k % 2 = 0 THEN h \o h ELSE h \o h \o c

\* s.substring(a, b), with 0-based a and b, clamped to the string.
Substring(s, a, b) == Sub(s, a + 1, b)

\* s.slice(a): the rest of the string from 0-based index a.
SliceFrom(s, a) == Sub(s, a + 1, Len(s))

\* 1-based index of the first occurrence of pat at or after from; 0 if none.
IndexFrom(s, pat, from) ==
    LET m == {i \in from..(Len(s) - Len(pat) + 1) :
                 Sub(s, i, i + Len(pat) - 1) = pat}
    IN  IF m = {} THEN 0 ELSE SetMin(m)

Includes(s, pat) ==
    \E i \in 1..(Len(s) - Len(pat) + 1) : SubSeq(s, i, i + Len(pat) - 1) = pat

StartsWith(s, pat) == Len(pat) <= Len(s) /\ Sub(s, 1, Len(pat)) = pat

EndsWith(s, pat) ==
    Len(pat) <= Len(s) /\ Sub(s, Len(s) - Len(pat) + 1, Len(s)) = pat

\* The 1-based positions at which pat occurs in s.
Matches(s, pat) ==
    {i \in 1..(Len(s) - Len(pat) + 1) : Sub(s, i, i + Len(pat) - 1) = pat}

RECURSIVE Ascending(_)
\* The elements of a finite set of integers, smallest first.
Ascending(S) ==
    IF S = {} THEN <<>>
    ELSE LET m == SetMin(S) IN <<m>> \o Ascending(S \ {m})

RECURSIVE PiecesFrom(_, _, _, _, _)
\* The pieces of s between the occurrences of a pattern of length n that
\* start at the positions ps[k..], the first piece starting at from.
PiecesFrom(s, ps, n, k, from) ==
    IF k > Len(ps) THEN <<Sub(s, from, Len(s))>>
    ELSE <<Sub(s, from, ps[k] - 1)>> \o PiecesFrom(s, ps, n, k + 1, ps[k] + n)

\* s.split(sep): the pieces between the occurrences of sep (the separators
\* used, "\n" and ",", cannot overlap themselves).
Split(s, sep) == PiecesFrom(s, Ascending(Matches(s, sep)), Len(sep), 1, 1)

RECURSIVE Join(_, _)
\* parts.join(sep)
Join(parts, sep) ==
    IF Len(parts) = 0 THEN ""
    ELSE IF Len(parts) = 1 THEN parts[1]
    ELSE parts[1] \o sep \o Join(Tail(parts), sep)

\* s.replace(/pat/g, rep) for a literal pattern that cannot overlap itself.
ReplaceAll(s, pat, rep) == Join(Split(s, pat), rep)

\* White space and line terminators stripped by String.prototype.trim.
IsWhiteSpace(c) == c \in {" ", "\t", "\n", "\r", BOM}

RECURSIVE TrimStartIdx(_, _)
TrimStartIdx(s, i) ==
    IF i <= Len(s) /\ IsWhiteSpace(At(s, i)) THEN TrimStartIdx(s, i + 1) ELSE i

RECURSIVE TrimEndIdx(_, _)
TrimEndIdx(s, j) ==
    IF j >= 1 /\ IsWhiteSpace(At(s, j)) THEN TrimEndIdx(s, j - 1) ELSE j

Trim(s) ==
    LET a == TrimStartIdx(s, 1)
        b == TrimEndIdx(s, Len(s))
    IN  IF a > b THEN "" ELSE Sub(s, a, b)

DigitChars == "0123456789"

RECURSIVE NumToString(_)
\* The decimal text of a non-negative integer (template interpolation).
NumToString(n) ==
    IF n < 10 THEN At(DigitChars, n + 1)
    ELSE NumToString(n \div 10) \o At(DigitChars, (n % 10) + 1)

UpperChars == "ABCDEFGHIJKLMNOPQRSTUVWXYZ"
LowerChars == "abcdefghijklmnopqrstuvwxyz"

LowerChar(c) ==
    LET i == IndexFrom(UpperChars, c, 1)
    IN  IF i = 0 THEN c ELSE At(LowerChars, i)

RECURSIVE ToLowerCase(_)
ToLowerCase(s) ==
    IF s = "" THEN "" ELSE LowerChar(At(s, 1)) \o ToLowerCase(SliceFrom(s, 1))

(***************************************************************************)
(* JavaScript values that may be undefined or null: a field is a record    *)
(* [def, s]; def = FALSE is undefined (or null), and s is then "".         *)
(***************************************************************************)
Undefined == [def |-> FALSE, s |-> ""]
Str(x) == [def |-> TRUE, s |-> x]

\* JavaScript truthiness of a string-or-undefined value.
Truthy(v) == v.def /\ v.s # ""

\* `${v}`: an undefined value interpolates as the text "undefined".
Tpl(v) == IF v.def THEN v.s ELSE "undefined"

(***************************************************************************)
(* JSON.parse and JSON.stringify(value, null, 2).  The grammar covered is  *)
(* arrays, objects, strings with the escapes \" \\ \/ \n \r \t (the        *)
(* escapes \b, \f and \uXXXX are outside the alphabet of the model and are *)
(* rejected), numbers with sign, fraction and exponent, true, false and    *)
(* null, with JSON white space between tokens.                             *)
(* A value is a record [t, n, s, keys, items] with tag t.  A finite number *)
(* is kept as the decimal it was read from: s holds the sign and the       *)
(* significant digits d1..dk (no leading or trailing zero) and n the       *)
(* position of the decimal point, the value being 0.d1..dk * 10^n; the     *)
(* rounding of the digits to 53 bits is not modelled, the range of a       *)
(* double is.  0 and -0 are one value.  An object holds its keys in        *)
(* insertion order.                                                        *)
(***************************************************************************)
JNum(sign, digits, n) ==
    [t |-> "num", n |-> n, s |-> sign \o digits, keys |-> <<>>, items |-> <<>>]
JZero == [t |-> "num", n |-> 0, s |-> "0", keys |-> <<>>, items |-> <<>>]
JInfinity(sign) ==
    [t |-> "inf", n |-> 0, s |-> sign, keys |-> <<>>, items |-> <<>>]
JStr(x) == [t |-> "str", n |-> 0, s |-> x, keys |-> <<>>, items |-> <<>>]
JLit(x) == [t |-> "lit", n |-> 0, s |-> x, keys |-> <<>>, items |-> <<>>]
JArr(xs) == [t |-> "arr", n |-> 0, s |-> "", keys |-> <<>>, items |-> xs]
JObj(ks, xs) == [t |-> "obj", n |-> 0, s |-> "", keys |-> ks, items |-> xs]

ParseFail == [ok |-> FALSE, val |-> JLit("null"), next |-> 0]
ParseOk(v, p) == [ok |-> TRUE, val |-> v, next |-> p]

JsonWhiteSpace == {" ", "\t", "\n", "\r"}

RECURSIVE SkipWS(_, _)
SkipWS(s, p) ==
    IF p <= Len(s) /\ At(s, p) \in JsonWhiteSpace THEN SkipWS(s, p + 1) ELSE p

IsDigit(c) == c # "" /\ Includes(DigitChars, c)

RECURSIVE DigitsEnd(_, _)
DigitsEnd(s, p) ==
    IF p <= Len(s) /\ IsDigit(At(s, p)) THEN DigitsEnd(s, p + 1) ELSE p

RECURSIVE ParseNat(_)
ParseNat(d) ==
    IF Len(d) = 0 THEN 0
    ELSE 10 * ParseNat(Sub(d, 1, Len(d) - 1))
             + (IndexFrom(DigitChars, At(d, Len(d)), 1) - 1)

RECURSIVE FirstNonZero(_, _)
FirstNonZero(d, i) ==
    IF i <= Len(d) /\ At(d, i) = "0" THEN FirstNonZero(d, i + 1) ELSE i

RECURSIVE LastNonZero(_, _)
LastNonZero(d, i) ==
    IF i >= 1 /\ At(d, i) = "0" THEN LastNonZero(d, i - 1) ELSE i

\* The digits of 2^1024 - 2^970, a decimal with its point after 309 digits:
\* a number at or above it is read as Infinity.
OverflowDigits == "179769313486231580793728971405303415079934132710037826936173778980444968292764750946649017977587207096330286416692887910946555547851940402630657488671505820681908902000708383676273854845817711531764475730270069855571366959622842914819860834936475292719074168444365510704342711559699508093042880177904174497792"

\* The digits of 2^-1075, a decimal 0.d1d2.. * 10^-323: a number at or
\* below it is read as 0.
UnderflowDigits == "24703282292062327208828439643411068618252990130716238221279284125033775363510437593264991818081799618989828234772285886546332835517796989819938739800539093906315035659515570226392290858392449105184435931802849936536152500319370457678249219365623669863658480757001585769269903706311928279558551332927834338409351978015531246597263579574622766465272827220056374006485499977096599470454020828166226237857393450736339007967761930577506740176324673600968951340535537458516661134223766678604162159680461914467291840300530057530849048765391711386591646239524912623653881879636239373280423891018672348497668235089863388587925628302755995657524455507255189313690836254779186948667994968324049705821028513185451396213837722826145437693412532098591327667236328125"

DigitAt(d, i) == IF i <= Len(d) THEN IndexFrom(DigitChars, At(d, i), 1) ELSE 1

RECURSIVE DigitsCompare(_, _, _)
\* -1, 0 or 1 as the fraction 0.a is below, equal to or above the fraction
\* 0.b, for digit strings a and b compared from position i.
DigitsCompare(a, b, i) ==
    IF i > Len(a) /\ i > Len(b) THEN 0
    ELSE IF DigitAt(a, i) < DigitAt(b, i) THEN -1
    ELSE IF DigitAt(a, i) > DigitAt(b, i) THEN 1
    ELSE DigitsCompare(a, b, i + 1)

\* The double nearest to sign 0.digits * 10^n, as far as its range goes.
ToDouble(sign, digits, n) ==
    IF n > 309 \/ (n = 309 /\ DigitsCompare(digits, OverflowDigits, 1) >= 0)
    THEN JInfinity(sign)
    ELSE IF n < -323 \/ (n = -323 /\ DigitsCompare(digits, UnderflowDigits, 1) <= 0)
    THEN JZero
    ELSE JNum(sign, digits, n)

\* The number with the digits all, whose significant digits are at the
\* positions first..last and whose decimal point follows position point.
Significant(sign, all, first, last, point, e) ==
    IF first > Len(all) THEN ParseOk(JZero, e)
    ELSE ParseOk(ToDouble(sign, Sub(all, first, last), point - (first - 1)), e)

NumberValue(sign, int, frac, exp, e) ==
    Significant(sign, int \o frac, FirstNonZero(int \o frac, 1),
                LastNonZero(int \o frac, Len(int) + Len(frac)), Len(int) + exp, e)

\* The value of the exponent digits d; beyond six digits the number is out
\* of the range of a double whatever its other digits are.
ExponentOf(d) ==
    IF Len(d) - FirstNonZero(d, 1) >= 6 THEN 1000000
    ELSE ParseNat(Sub(d, FirstNonZero(d, 1), Len(d)))

ExponentDigits(s, sign, int, frac, es, q, e) ==
    IF e = q THEN ParseFail
    ELSE NumberValue(sign, int, frac, es * ExponentOf(Sub(s, q, e - 1)), e)

ExponentSign(s, sign, int, frac, q) ==
    IF At(s, q) = "-"
    THEN ExponentDigits(s, sign, int, frac, -1, q + 1, DigitsEnd(s, q + 1))
    ELSE IF At(s, q) = "+"
    THEN ExponentDigits(s, sign, int, frac, 1, q + 1, DigitsEnd(s, q + 1))
    ELSE ExponentDigits(s, sign, int, frac, 1, q, DigitsEnd(s, q))

NumberExponent(s, sign, int, frac, p) ==
    IF At(s, p) \in {"e", "E"} THEN ExponentSign(s, sign, int, frac, p + 1)
    ELSE NumberValue(sign, int, frac, 0, p)

FractionDigits(s, sign, int, q, e) ==
    IF e = q THEN ParseFail
    ELSE NumberExponent(s, sign, int, Sub(s, q, e - 1), e)

NumberFraction(s, sign, int, p) ==
    IF At(s, p) = "." THEN FractionDigits(s, sign, int, p + 1, DigitsEnd(s, p + 1))
    ELSE NumberExponent(s, sign, int, "", p)

\* The integer part s[p..e-1]: one digit at least, no leading zero.
NumberInteger(s, sign, p, e) ==
    IF e = p \/ (e - p > 1 /\ At(s, p) = "0") THEN ParseFail
    ELSE NumberFraction(s, sign, Sub(s, p, e - 1), e)

\* A number literal that starts at p.
ParseNumber(s, p) ==
    IF At(s, p) = "-" THEN NumberInteger(s, "-", p + 1, DigitsEnd(s, p + 1))
    ELSE NumberInteger(s, "", p, DigitsEnd(s, p))

\* Characters that may not appear raw inside a JSON string.
StringForbidden == {"\n", "\r", "\t", NUL}

\* The character an escape sequence \c stands for; "" if it is none.
Unescaped(c) ==
    IF c \in {"\"", "\\", "/"} THEN c
    ELSE IF c = "n" THEN "\n"
    ELSE IF c = "r" THEN "\r"
    ELSE IF c = "t" THEN "\t"
    ELSE ""

RECURSIVE StringFrom(_, _, _)

StringEscape(s, acc, c, next) ==
    IF c = "" THEN ParseFail ELSE StringFrom(s, next, acc \o c)

\* The rest of a string literal from position p, acc being the characters
\* read so far, q the next quote and b the next backslash (0: none).
StringPiece(s, p, acc, q, b) ==
    IF q = 0 THEN ParseFail
    ELSE IF \E i \in p..(Min2(q, IF b = 0 THEN q ELSE b) - 1) :
                At(s, i) \in StringForbidden
    THEN ParseFail
    ELSE IF b = 0 \/ b > q THEN ParseOk(JStr(acc \o Sub(s, p, q - 1)), q + 1)
    ELSE StringEscape(s, acc \o Sub(s, p, b - 1), Unescaped(At(s, b + 1)), b + 2)

StringFrom(s, p, acc) ==
    StringPiece(s, p, acc, IndexFrom(s, "\"", p), IndexFrom(s, "\\", p))

\* A string literal whose opening quote is at p.
ParseString(s, p) == StringFrom(s, p + 1, "")

\* obj[k] = v: a repeated key keeps its first position and takes the last value.
SetMember(ks, xs, k, v) ==
    IF \E i \in 1..Len(ks) : ks[i] = k
    THEN LET i == CHOOSE j \in 1..Len(ks) : ks[j] = k
         IN  [keys |-> ks, items |-> [xs EXCEPT ![i] = v]]
    ELSE [keys |-> Append(ks, k), items |-> Append(xs, v)]

RECURSIVE ParseValue(_, _)
RECURSIVE ParseElements(_, _, _)
RECURSIVE ParseMembers(_, _, _, _)

\* After an element r of an array: "," and the next one, or the closing "]".
ElementEnd(s, r, q, acc) ==
    IF At(s, q) = "," THEN ParseElements(s, q + 1, Append(acc, r.val))
    ELSE IF At(s, q) = "]" THEN ParseOk(JArr(Append(acc, r.val)), q + 1)
    ELSE ParseFail

ElementParsed(s, r, acc) ==
    IF ~r.ok THEN ParseFail ELSE ElementEnd(s, r, SkipWS(s, r.next), acc)

\* The elements of an array after "[" or ",", up to the closing "]".
ParseElements(s, p, acc) == ElementParsed(s, ParseValue(s, p), acc)

\* After a member of an object: "," and the next one, or the closing "}".
MemberEnd(s, e, m) ==
    IF At(s, e) = "," THEN ParseMembers(s, e + 1, m.keys, m.items)
    ELSE IF At(s, e) = "}" THEN ParseOk(JObj(m.keys, m.items), e + 1)
    ELSE ParseFail

MemberParsed(s, k, r, ks, xs) ==
    IF ~r.ok THEN ParseFail
    ELSE MemberEnd(s, SkipWS(s, r.next), SetMember(ks, xs, k.val.s, r.val))

MemberColon(s, k, c, ks, xs) ==
    IF At(s, c) = ":" THEN MemberParsed(s, k, ParseValue(s, c + 1), ks, xs)
    ELSE ParseFail

MemberKey(s, k, ks, xs) ==
    IF ~k.ok THEN ParseFail ELSE MemberColon(s, k, SkipWS(s, k.next), ks, xs)

MemberStart(s, q, ks, xs) ==
    IF At(s, q) = "\"" THEN MemberKey(s, ParseString(s, q), ks, xs) ELSE ParseFail

\* The members of an object after "{" or ",", up to the closing "}".
ParseMembers(s, p, ks, xs) == MemberStart(s, SkipWS(s, p), ks, xs)

\* The array whose "[" is followed, after white space, by position q.
ParseArray(s, q) ==
    IF At(s, q) = "]" THEN ParseOk(JArr(<<>>), q + 1)
    ELSE ParseElements(s, q, <<>>)

\* The object whose "{" is followed, after white space, by position q.
ParseObject(s, q) ==
    IF At(s, q) = "}" THEN ParseOk(JObj(<<>>, <<>>), q + 1)
    ELSE ParseMembers(s, q, <<>>, <<>>)

\* The value that starts at position p with the character c.
ParseToken(s, p, c) ==
    IF c = "[" THEN ParseArray(s, SkipWS(s, p + 1))
    ELSE IF c = "{" THEN ParseObject(s, SkipWS(s, p + 1))
    ELSE IF c = "\"" THEN ParseString(s, p)
    ELSE IF IsDigit(c) \/ c = "-" THEN ParseNumber(s, p)
    ELSE IF Sub(s, p, p + 3) = "true" THEN ParseOk(JLit("true"), p + 4)
    ELSE IF Sub(s, p, p + 4) = "false" THEN ParseOk(JLit("false"), p + 5)
    ELSE IF Sub(s, p, p + 3) = "null" THEN ParseOk(JLit("null"), p + 4)
    ELSE ParseFail

ParseValueAt(s, p) == ParseToken(s, p, At(s, p))

ParseValue(s, p0) == ParseValueAt(s, SkipWS(s, p0))

\* A parse is complete when only white space follows the value.
ParseComplete(text, r) ==
    IF r.ok /\ SkipWS(text, r.next) = Len(text) + 1 THEN r ELSE ParseFail

\* JSON.parse(text): ok = FALSE where JSON.parse throws a SyntaxError.
JsonParse(text) == ParseComplete(text, ParseValue(text, 1))

\* A variant of ExponentPart that writes every exponent with a plus sign.
ExponentPartPlus(e) ==
    IF e < 0 THEN "e+" \o NumToString(0 - e) ELSE "e+" \o NumToString(e)

\* "e+21", "e-7": the exponent part of Number::toString.
ExponentPart(e) ==
    IF e < 0 THEN "e-" \o NumToString(0 - e) ELSE "e+" \o NumToString(e)

\* Number::toString of the positive number 0.d * 10^n, d having k digits.
DecimalText(d, k, n) ==
    IF k <= n /\ n <= 21 THEN d \o Rep("0", n - k)
    ELSE IF 0 < n /\ n <= 21 THEN Sub(d, 1, n) \o "." \o Sub(d, n + 1, k)
    ELSE IF -6 < n /\ n <= 0 THEN "0." \o Rep("0", 0 - n) \o d
    ELSE At(d, 1) \o (IF k = 1 THEN "" ELSE "." \o Sub(d, 2, k)) \o ExponentPart(n - 1)

\* The text JSON.stringify gives a finite number.
NumberText(v) ==
    IF v.s = "0" THEN "0"
    ELSE IF At(v.s, 1) = "-" THEN "-" \o DecimalText(Sub(v.s, 2, Len(v.s)), Len(v.s) - 1, v.n)
    ELSE DecimalText(v.s, Len(v.s), v.n)

\* QuoteJSONString: the characters JSON.stringify escapes inside a string.
Quote(x) ==
    IF \A i \in 1..Len(x) : At(x, i) \notin {"\"", "\\", "\n", "\r", "\t"}
    THEN "\"" \o x \o "\""
    ELSE "\"" \o ReplaceAll(ReplaceAll(ReplaceAll(ReplaceAll(ReplaceAll(x,
                  "\\", "\\\\"), "\"", "\\\""), "\n", "\\n"), "\r", "\\r"),
                  "\t", "\\t") \o "\""

RECURSIVE Stringify(_, _)
RECURSIVE StringifyItems(_, _, _, _)

\* The lines of the members of an array or object, each indented by ind.
StringifyItems(ks, xs, ind, i) ==
    LET key == IF Len(ks) = 0 THEN "" ELSE Quote(ks[i]) \o ": "
        one == Rep(" ", ind) \o key \o Stringify(xs[i], ind)
    IN  IF i = Len(xs) THEN one
        ELSE one \o ",\n" \o StringifyItems(ks, xs, ind, i + 1)

\* JSON.stringify(v, null, 2) of a value nested at indentation ind; a
\* number that is not finite is written as null.
Stringify(v, ind) ==
    IF v.t = "num" THEN NumberText(v)
    ELSE IF v.t = "inf" THEN "null"
    ELSE IF v.t = "str" THEN Quote(v.s)
    ELSE IF v.t = "lit" THEN v.s
    ELSE IF v.t = "arr" THEN
        IF Len(v.items) = 0 THEN "[]"
        ELSE "[\n" \o StringifyItems(<<>>, v.items, ind + 2, 1)
                 \o "\n" \o Rep(" ", ind) \o "]"
    ELSE IF Len(v.items) = 0 THEN "{}"
    ELSE "{\n" \o StringifyItems(v.keys, v.items, ind + 2, 1)
             \o "\n" \o Rep(" ", ind) \o "}"

(***************************************************************************)
(* The file normalizers.  Both route files define the same four helpers,   *)
(* character for character; they are modelled once.                        *)
(***************************************************************************)
CsvPreviewRows == 20
JsonPrettyLimit == 3000
JsonRawLimit == 2000
MaxBlockLength == 4000
CloudPdfLimit == 3000

ImageUndecodable == "[Image content could not be decoded]"

\* A variant of ImageDescription that quotes the data it counted.
ImageDescriptionWithData(parts) ==
    IF Len(parts) < 2 \/ parts[2] = "" THEN ImageUndecodable
    ELSE "[Image file detected - Base64 encoded image: " \o parts[2] \o "]"

ImageDescription(parts) ==
    IF Len(parts) < 2 \/ parts[2] = "" THEN ImageUndecodable
    ELSE "[Image file detected - Base64 encoded image with "
             \o NumToString(Len(parts[2])) \o " characters of data]"

\* decodeImageContent(base64Content)
DecodeImageContent(content) ==
    IF ~content.def THEN ImageUndecodable
    ELSE ImageDescription(Split(content.s, ","))

\* Lines 27-29: remove the byte order mark if present.
StripBOM(c) == IF At(c, 1) = BOM THEN SliceFrom(c, 1) ELSE c

\* Lines 32-36: line endings, null characters, trim.
CleanText(c) ==
    Trim(ReplaceAll(ReplaceAll(ReplaceAll(StripBOM(c), "\r\n", "\n"), "\r", "\n"),
                    NUL, ""))

\* Lines 39-43
CleanedOrEmptyNote(cleaned, filename) ==
    IF cleaned = ""
    THEN "[" \o Tpl(filename) \o " appears to be empty or contains only whitespace]"
    ELSE cleaned

\* decodeTextContent(content, filename)
DecodeTextContent(content, filename) ==
    IF ~content.def
    THEN "[Error decoding content from " \o Tpl(filename) \o "]"
    ELSE CleanedOrEmptyNote(CleanText(content.s), filename)

\* A variant of CsvLines that keeps the blank lines.
CsvLinesUnfiltered(content) == Split(content, "\n")

\* content.split('\n').filter(line => line.trim())
CsvLines(content) == SelectSeq(Split(content, "\n"), LAMBDA l : Trim(l) # "")

\* Lines 53-62, on the non-blank lines.
CsvSummary(lines, filename) ==
    IF Len(lines) = 0 THEN "[" \o Tpl(filename) \o " appears to be empty]"
    ELSE "CSV File: " \o Tpl(filename) \o "\nRows: " \o NumToString(Len(lines))
             \o "\nFirst 20 rows:\n"
             \o Join(SubSeq(lines, 1, Min2(CsvPreviewRows, Len(lines))), "\n")
             \o (IF Len(lines) > CsvPreviewRows
                 THEN "\n\n... and " \o NumToString(Len(lines) - CsvPreviewRows)
                          \o " more rows"
                 ELSE "")

\* processCSVContent(content, filename)
ProcessCSVContent(content, filename) == CsvSummary(CsvLines(content), filename)

\* Lines 75-79, on the pretty-printed text.
JsonFormatted(formatted, filename) ==
    IF Len(formatted) > JsonPrettyLimit
    THEN "JSON File: " \o Tpl(filename) \o "\nStructure preview:\n"
             \o Substring(formatted, 0, JsonPrettyLimit)
             \o "...\n\n[Content truncated due to size]"
    ELSE "JSON File: " \o Tpl(filename) \o "\nContent:\n" \o formatted

\* A variant of JsonBlock that copies the whole of an invalid text.
JsonBlockRawWhole(parsed, content, filename) ==
    IF ~parsed.ok
    THEN "JSON File: " \o Tpl(filename) \o "\nRaw content (invalid JSON):\n" \o content
    ELSE JsonFormatted(Stringify(parsed.val, 0), filename)

\* Lines 70-82, on the outcome of JSON.parse.
JsonBlock(parsed, content, filename) ==
    IF ~parsed.ok
    THEN "JSON File: " \o Tpl(filename) \o "\nRaw content (invalid JSON):\n"
             \o Substring(content, 0, JsonRawLimit)
    ELSE JsonFormatted(Stringify(parsed.val, 0), filename)

\* processJSONContent(content, filename)
ProcessJSONContent(content, filename) ==
    JsonBlock(JsonParse(content), content, filename)

TruncationNotice == "\n\n[Content truncated due to length]"

\* A variant of LimitContent that forgets the ceiling.
LimitContentUncut(decodedContent) == decodedContent

\* Lines 165-168: the per-file ceiling applied after the dispatch.
LimitContent(decodedContent) ==
    IF Len(decodedContent) > MaxBlockLength
    THEN Substring(decodedContent, 0, MaxBlockLength) \o TruncationNotice
    ELSE decodedContent

(***************************************************************************)
(* The request handlers: POST of api/ollama ("ollama", the local handler)  *)
(* and POST of api/gemini ("gemini", the cloud handler).                   *)
(***************************************************************************)
VARIABLES
    apiKeySet,      \* process.env.GEMINI_API_KEY is set
    hpc,            \* the handler: "idle", "calling" (awaiting fetch), "done"
    handler,        \* the route that received the request
    req,            \* the request's form data
    files,          \* const files: the parsed file entries
    blocks,         \* the value of decodedContent appended for each file
    fullPrompt,     \* let fullPrompt
    backendCalls,   \* fetch calls to the model API made for this request
    backend,        \* what the model API answered
    responses,      \* NextResponse.json calls made for this request
    response,       \* the response returned
    threw           \* the outer catch block ran

serverVars == <<apiKeySet, hpc, handler, req, files, blocks, fullPrompt,
                backendCalls, backend, responses, response, threw>>

Handlers == {"ollama", "gemini"}

OllamaPreamble == "You are ScholarAI, a highly capable and ethically aligned AI research assistant. Your primary role is to help users explore, analyze, and understand any topic through research-driven answers, learning support, or analytical insights. You specialize in academic research, self-guided study, and curiosity-based exploration across all fields of knowledge. Engage in a friendly, intelligent, and helpful tone. Avoid repetitively stating your identity or mission unless explicitly asked. Maintain polite boundaries: if a user asks something outside your scope, gently guide the conversation back to meaningful inquiry, study, or educational insight. Do not engage in discussions that are explicitly sexual, harmful, or inappropriate, unless they are part of a legitimate, constructive, and educational context. Always adhere to strict AI safety, research integrity, and ethical communication standards. Your responses should be helpful, accurate, and framed through the lens of inquiry, study, or research-even when the user is casually exploring ideas."

GeminiPreamble == "You are ScholarAI, an expert AI research assistant. Answer as a helpful, knowledgeable, and friendly research assistant."

Preamble(h) == IF h = "ollama" THEN OllamaPreamble ELSE GeminiPreamble

ApiName(h) == IF h = "ollama" THEN "Ollama" ELSE "Gemini"

(***************************************************************************)
(* A form field file_i, by what JSON.parse makes of it: "absent" (no such  *)
(* field, or an empty one), "malformed" (JSON.parse throws), "null",       *)
(* "scalar" (a number, string or boolean: every property is undefined) or  *)
(* "object" with the fields name, type and content where present.          *)
(* extract is what the extraction library (pdf-parse, mammoth) does with   *)
(* the file's payload: its text, or the message of the error it throws.    *)
(***************************************************************************)
ExtractText(x) == [ok |-> TRUE, text |-> x]
ExtractError(m) == [ok |-> FALSE, text |-> m]

Entry(k, n, ty, c, x) ==
    [kind |-> k, name |-> n, type |-> ty, content |-> c, extract |-> x]

FileObject(n, ty, c) == Entry("object", n, ty, c, ExtractText(""))
AbsentEntry == Entry("absent", Undefined, Undefined, Undefined, ExtractText(""))
MalformedEntry == Entry("malformed", Undefined, Undefined, Undefined, ExtractText(""))
NullEntry == Entry("null", Undefined, Undefined, Undefined, ExtractText(""))
ScalarEntry == Entry("scalar", Undefined, Undefined, Undefined, ExtractText(""))

\* formData.get(`file_${i}`) for the 0-based i.
GetFile(r, i) == IF i < Len(r.entries) THEN r.entries[i + 1] ELSE AbsentEntry

RECURSIVE ParseFilesFrom(_, _)
ParseFilesFrom(r, i) ==
    IF i >= r.fileCount THEN <<>>
    ELSE IF GetFile(r, i).kind \in {"absent", "malformed"}
    THEN ParseFilesFrom(r, i + 1)
    ELSE <<GetFile(r, i)>> \o ParseFilesFrom(r, i + 1)

\* Lines 92-103: the entries that are present and parse, in order.
ParseFiles(r) == ParseFilesFrom(r, 0)

\* A variant of IsEmptyRequest that compares the message with '' only.
IsEmptyRequestStrict(msg, fs) == msg.def /\ msg.s = "" /\ Len(fs) = 0

\* Line 105: !message && files.length === 0
IsEmptyRequest(msg, fs) == ~Truthy(msg) /\ Len(fs) = 0

\* A variant of ApiKeyMissing that never looks at the key.
ApiKeyUnchecked(h, key) == FALSE

\* Line 323 of the cloud handler: !GEMINI_API_KEY
ApiKeyMissing(h, key) == h = "gemini" /\ ~key

SecondPiece(parts) == IF Len(parts) < 2 THEN Undefined ELSE Str(parts[2])

\* file.content.split(',')[1]
Base64Part(content) == SecondPiece(Split(content.s, ","))

ExtractionFailure(failure, label, file) ==
    label \o " File: " \o Tpl(file.name) \o "\n[Error extracting text from "
        \o label \o ": " \o failure \o "]"

\* Lines 139-150: the PDF branch of the local handler.
LocalPdfContent(file) ==
    IF ~file.content.def
    THEN ExtractionFailure("Cannot read properties of undefined (reading 'split')",
                           "PDF", file)
    ELSE IF ~Truthy(Base64Part(file.content))
    THEN ExtractionFailure("Invalid base64 content for PDF.", "PDF", file)
    ELSE IF ~file.extract.ok THEN ExtractionFailure(file.extract.text, "PDF", file)
    ELSE "PDF File: " \o Tpl(file.name) \o "\n"
             \o (IF file.extract.text # "" THEN file.extract.text
                 ELSE "[No text found]")

\* Buffer.from(undefined, 'base64')
BufferTypeError ==
    "The first argument must be of type string or an instance of Buffer, ArrayBuffer, or Array or an Array-like Object. Received undefined"

\* Lines 152-159: the DOCX branch of the local handler.
LocalDocxContent(file) ==
    IF ~file.content.def
    THEN ExtractionFailure("Cannot read properties of undefined (reading 'split')",
                           "DOCX", file)
    ELSE IF ~Base64Part(file.content).def
    THEN ExtractionFailure(BufferTypeError, "DOCX", file)
    ELSE IF ~file.extract.ok THEN ExtractionFailure(file.extract.text, "DOCX", file)
    ELSE "DOCX File: " \o Tpl(file.name) \o "\n" \o file.extract.text

\* Line 356: the PDF branch of the cloud handler.
CloudPdfContent(file) ==
    "PDF File: " \o Tpl(file.name)
        \o "\n[Note: PDF parsing is limited in this implementation]\n"
        \o Substring(DecodeTextContent(file.content, file.name), 0, CloudPdfLimit)

(***************************************************************************)
(* The if/else chain of each handler: the branch taken for a file, or the  *)
(* TypeError thrown while choosing it ("throw-null": the file is null, at  *)
(* file.name of the section header; "throw-type": file.type is undefined;  *)
(* "throw-name": file.name is undefined where its extension is needed).    *)
(***************************************************************************)
ByNameLocal(ty, name) ==
    IF EndsWith(name, ".csv") THEN "csv"
    ELSE IF Includes(ty, "json") \/ EndsWith(name, ".json") THEN "json"
    ELSE IF Includes(ty, "pdf") \/ EndsWith(name, ".pdf") THEN "pdf"
    ELSE IF Includes(ty, "wordprocessingml.document") \/ EndsWith(name, ".docx")
    THEN "docx"
    ELSE "text"

\* Lines 132-163; name.toLowerCase() is evaluated where the chain needs it.
DispatchLocal(file) ==
    IF file.kind = "null" THEN "throw-null"
    ELSE IF ~file.type.def THEN "throw-type"
    ELSE IF StartsWith(file.type.s, "image/") THEN "image"
    ELSE IF Includes(file.type.s, "csv") THEN "csv"
    ELSE IF ~file.name.def THEN "throw-name"
    ELSE ByNameLocal(file.type.s, ToLowerCase(file.name.s))

\* A variant of ByNameCloud that knows a PDF and a DOCX by its name as well.
ByNameCloudWithFallback(ty, name) ==
    IF EndsWith(name, ".csv") THEN "csv"
    ELSE IF Includes(ty, "json") \/ EndsWith(name, ".json") THEN "json"
    ELSE IF Includes(ty, "pdf") \/ EndsWith(name, ".pdf") THEN "pdf"
    ELSE IF Includes(ty, "wordprocessingml.document") \/ EndsWith(name, ".docx")
    THEN "docx"
    ELSE "text"

ByNameCloud(ty, name) ==
    IF EndsWith(name, ".csv") THEN "csv"
    ELSE IF Includes(ty, "json") \/ EndsWith(name, ".json") THEN "json"
    ELSE IF Includes(ty, "pdf") THEN "pdf"
    ELSE "text"

\* A variant of DispatchCloud without the rule for images.
DispatchCloudImagesAsText(file) ==
    IF file.kind = "null" THEN "throw-null"
    ELSE IF ~file.type.def THEN "throw-type"
    ELSE IF Includes(file.type.s, "csv") THEN "csv"
    ELSE IF ~file.name.def THEN "throw-name"
    ELSE ByNameCloud(file.type.s, ToLowerCase(file.name.s))

\* Lines 348-360
DispatchCloud(file) ==
    IF file.kind = "null" THEN "throw-null"
    ELSE IF ~file.type.def THEN "throw-type"
    ELSE IF StartsWith(file.type.s, "image/") THEN "image"
    ELSE IF Includes(file.type.s, "csv") THEN "csv"
    ELSE IF ~file.name.def THEN "throw-name"
    ELSE ByNameCloud(file.type.s, ToLowerCase(file.name.s))

Dispatch(h, file) == IF h = "ollama" THEN DispatchLocal(file) ELSE DispatchCloud(file)

Throws(branch) == branch \in {"throw-null", "throw-type", "throw-name"}

TypeErrorMessage(branch) ==
    IF branch = "throw-null" THEN "Cannot read properties of null (reading 'name')"
    ELSE IF branch = "throw-type"
    THEN "Cannot read properties of undefined (reading 'startsWith')"
    ELSE "Cannot read properties of undefined (reading 'toLowerCase')"

\* The CSV, JSON and plain text branches, on the decoded text.
TextBranch(branch, text, filename) ==
    IF branch = "csv" THEN ProcessCSVContent(text, filename)
    ELSE IF branch = "json" THEN ProcessJSONContent(text, filename)
    ELSE text

\* decodedContent as the chosen branch assigns it, before the ceiling.
BranchContent(h, branch, file) ==
    IF branch = "image" THEN DecodeImageContent(file.content)
    ELSE IF branch = "pdf"
    THEN IF h = "ollama" THEN LocalPdfContent(file) ELSE CloudPdfContent(file)
    ELSE IF branch = "docx" THEN LocalDocxContent(file)
    ELSE TextBranch(branch, DecodeTextContent(file.content, file.name), file.name)

\* The block appended to the prompt for one file (the value of
\* decodedContent at `fullPrompt += "\n" + decodedContent`).
FileBlock(h, file) == LimitContent(BranchContent(h, Dispatch(h, file), file))

\* `\n\n--- File ${index + 1}: ${file.name} (${file.type}) ---`
\* A variant of SectionHeader that numbers the files from 0.
SectionHeaderFromZero(index, file) ==
    "\n\n--- File " \o NumToString(index) \o ": " \o Tpl(file.name)
        \o " (" \o Tpl(file.type) \o ") ---"

SectionHeader(index, file) ==
    "\n\n--- File " \o NumToString(index + 1) \o ": " \o Tpl(file.name)
        \o " (" \o Tpl(file.type) \o ") ---"

FilesIntro(n) ==
    "\n\nThe user has uploaded " \o NumToString(n)
        \o " file(s). Please analyze the content and provide insights:"

FilesOutro ==
    "\n\nPlease provide a comprehensive analysis of the uploaded content. Include summaries, key insights, and answer any questions about the files."

Assembled(prompt, bs) ==
    [threw |-> FALSE, msg |-> "", prompt |-> prompt, blocks |-> bs]

AssemblyThrew(m) == [threw |-> TRUE, msg |-> m, prompt |-> "", blocks |-> <<>>]

RECURSIVE AssembleFiles(_, _, _, _, _)

\* Line 170: the block is appended and the loop goes on.
AppendBlock(h, fs, index, prompt, bs, block) ==
    AssembleFiles(h, fs, index + 1,
                  prompt \o SectionHeader(index, fs[index + 1]) \o "\n" \o block,
                  Append(bs, block))

\* One iteration: a throw in the dispatch of a file abandons the prompt.
AppendFile(h, fs, index, prompt, bs, branch) ==
    IF Throws(branch) THEN AssemblyThrew(TypeErrorMessage(branch))
    ELSE AppendBlock(h, fs, index, prompt, bs,
                     LimitContent(BranchContent(h, branch, fs[index + 1])))

\* Lines 125-171: the loop over files, from the 0-based index on.
AssembleFiles(h, fs, index, prompt, bs) ==
    IF index >= Len(fs) THEN Assembled(prompt, bs)
    ELSE AppendFile(h, fs, index, prompt, bs, Dispatch(h, fs[index + 1]))

\* Line 173: the closing instruction, when the loop ended normally.
CloseFiles(a) == IF a.threw THEN a ELSE [a EXCEPT !.prompt = a.prompt \o FilesOutro]

\* A variant of PromptHead that leaves the user message out.
PromptHeadWithoutMessage(h, msg) == Preamble(h)

\* Lines 116-120: the preamble and the user message.
PromptHead(h, msg) ==
    IF Truthy(msg) THEN Preamble(h) \o "\n\nUser message: " \o msg.s
    ELSE Preamble(h)

\* Lines 116-174: the prompt of a request that passed validation.
Assemble(h, msg, fs) ==
    IF Len(fs) = 0 THEN Assembled(PromptHead(h, msg), <<>>)
    ELSE CloseFiles(AssembleFiles(h, fs, 0,
                                  PromptHead(h, msg) \o FilesIntro(Len(fs)),
                                  <<>>))

(***************************************************************************)
(* Responses: NextResponse.json(body, {status}).  A field the body does    *)
(* not carry is Undefined; filesProcessed is -1 where it is not carried.   *)
(***************************************************************************)
NoResponse ==
    [status |-> 0, success |-> FALSE, error |-> Undefined,
     response |-> Undefined, filesProcessed |-> -1]

ErrorResponse(code, text) ==
    [status |-> code, success |-> FALSE, error |-> Str(text),
     response |-> Undefined, filesProcessed |-> -1]

SuccessResponse(reply, n) ==
    [status |-> 200, success |-> TRUE, error |-> Undefined,
     response |-> Str(reply), filesProcessed |-> n]

\* Lines 205-211: the outer catch.
UnexpectedError(text) == ErrorResponse(500, "Unexpected error: " \o text)

\* A variant of ValidationError that leaves out { status: 400 }.
ValidationErrorDefaultStatus == ErrorResponse(200, "No message or files provided")

\* Lines 106-109
ValidationError == ErrorResponse(400, "No message or files provided")

\* Lines 324-327
MissingKeyError == ErrorResponse(500, "Gemini API key not set.")

\* A variant of BackendError that reports the status alone.
BackendErrorStatusOnly(h, status, text) ==
    ErrorResponse(500, ApiName(h) \o " API error: " \o NumToString(status))

\* Lines 188-194 and 390-396
BackendError(h, status, text) ==
    ErrorResponse(500, ApiName(h) \o " API error: " \o NumToString(status)
                           \o " - " \o text)

NoBackend ==
    [fetchThrows |-> FALSE, ok |-> FALSE, status |-> 0, text |-> "",
     json |-> FALSE, reply |-> Undefined]

NoRequest == [formOk |-> FALSE, message |-> Undefined, fileCount |-> 0, entries |-> <<>>]

(***************************************************************************)
(* The requests the handlers are run on.                                   *)
(***************************************************************************)
MaxFiles == 2

\* n rows, each the text row, separated by line feeds.
CsvRows(n, row) == Rep(row \o "\n", n - 1) \o row

TextContents ==
    { "", "hello world", " \r\n\t ", "^a\r\nb\rc~d  ",
      Rep("a", 4000), Rep("a", 4001), " \n" \o Rep("ab", 2500) \o " " }

CsvContents ==
    { "", "h,v\n1,2",
      CsvRows(20, "r,1"), CsvRows(21, "r,1"),
      "h,v\r\n\r\n" \o Rep("1,2\r\n  \r\n", 24),
      CsvRows(40, Rep("x", 99)),
      CsvRows(21, Rep("x", 195)), CsvRows(21, Rep("x", 196)),
      CsvRows(21, Rep("x", 197)), CsvRows(25, Rep("x", 250)) }

JsonContents ==
    { "", "[1,2]", " [ ] ", "{bad", "[1,]",
      "{\"a\": [1, {\"b\": \"x\"}], \"c\": null, \"a\": true}",
      "\"" \o Rep("a", 2998) \o "\"", "\"" \o Rep("a", 2999) \o "\"",
      "\"" \o Rep("a", 4500) \o "\"",
      "[" \o Rep("12, ", 40) \o "12]",
      "[1e21, 1.5e-7, -12.50, 0.000001, \"a\\\"b\\\\c\\n\"]",
      "{\"max\": 1e400, \"min\": [-1e400, 1.7976931348623157e308]}",
      Rep("x", 2500) }

DataUrls ==
    { "data:image/png;base64,iVBORw0KGgo=", "data:image/png;base64,", "iVBORw0KGgo=" }

Extractions ==
    { ExtractText(""), ExtractText("Extracted text"), ExtractText(Rep("p", 4500)),
      ExtractError("Invalid PDF structure") }

DocxType == "application/vnd.openxmlformats-officedocument.wordprocessingml.document"

TextFiles ==
    { FileObject(Str(nt[1]), Str(nt[2]), Str(c)) :
        nt \in { <<"notes.txt", "text/plain">>, <<"README", "">> },
        c \in TextContents }

CsvFiles ==
    { FileObject(Str(nt[1]), Str(nt[2]), Str(c)) :
        nt \in { <<"data.csv", "text/csv">>, <<"DATA.CSV", "">> },
        c \in CsvContents }

JsonFiles ==
    { FileObject(Str(nt[1]), Str(nt[2]), Str(c)) :
        nt \in { <<"conf.json", "application/json">>, <<"conf.JSON", "text/plain">> },
        c \in JsonContents }

ImageFiles ==
    { FileObject(Str(nt[1]), Str(nt[2]), Str(c)) :
        nt \in { <<"pic.png", "image/png">>, <<"pic.csv", "image/jpeg">> },
        c \in DataUrls }

BinaryFiles ==
    { Entry("object", Str(nt[1]), Str(nt[2]), Str(c), x) :
        nt \in { <<"paper.pdf", "application/pdf">>, <<"paper.pdf", "">>,
                 <<"thesis.docx", DocxType>>, <<"thesis.docx", "">> },
        c \in { "data:application/octet-stream;base64,JVBERi0x" },
        x \in Extractions }
    \cup
    { FileObject(Str(nt[1]), Str(nt[2]), Str(c)) :
        nt \in { <<"paper.pdf", "application/pdf">>, <<"thesis.docx", DocxType>> },
        c \in { "JVBERi0x", "data:application/pdf;base64,", "%PDF-1.4 " \o Rep("q", 4200) } }

\* Objects that lack a field.
PartialFiles ==
    { FileObject(n, ty, c) :
        n \in { Undefined, Str("notes.txt") },
        ty \in { Undefined, Str("text/plain"), Str("text/csv"),
                 Str("application/json"), Str("image/png"),
                 Str("application/pdf"), Str(DocxType) },
        c \in { Undefined, Str("a,b\n1,2") } }

OtherEntries == { AbsentEntry, MalformedEntry, NullEntry, ScalarEntry }

Entries ==
    TextFiles \cup CsvFiles \cup JsonFiles \cup ImageFiles \cup BinaryFiles
        \cup PartialFiles \cup OtherEntries

\* The entries that requests of several files are made of.
SmallEntries ==
    { FileObject(Str("notes.txt"), Str("text/plain"), Str("hello world")),
      FileObject(Str("data.csv"), Str("text/csv"), Str(CsvRows(21, "r,1"))),
      FileObject(Str("pic.png"), Str("image/png"), Str("data:image/png;base64,iVBORw0KGgo=")),
      FileObject(Str("notes.txt"), Undefined, Str("hello world")),
      MalformedEntry, AbsentEntry }

RECURSIVE SeqsOver(_, _)
\* The sequences of exactly n elements of S.
SeqsOver(S, n) ==
    IF n = 0 THEN { <<>> }
    ELSE { Append(q, e) : q \in SeqsOver(S, n - 1), e \in S }

EntrySeqs ==
    { <<>> } \cup { <<e>> : e \in Entries }
        \cup UNION { SeqsOver(SmallEntries, n) : n \in 2..MaxFiles }

Messages == { Undefined, Str(""), Str("summarize") }

\* The client sends fileCount = the number of file fields.  A hand-made
\* request may declare another count, or none (fileCount is then 0).
Miscounted ==
    { [formOk |-> TRUE, message |-> m, fileCount |-> c, entries |-> es] :
        m \in Messages,
        c \in 0..(MaxFiles + 1),
        es \in { <<>>,
                 << FileObject(Str("notes.txt"), Str("text/plain"), Str("hello world")) >> } }

Requests ==
    { NoRequest } \cup Miscounted \cup
    { [formOk |-> TRUE, message |-> m, fileCount |-> Len(es), entries |-> es] :
        m \in Messages, es \in EntrySeqs }

BackendOutcomes ==
    { [fetchThrows |-> TRUE, ok |-> FALSE, status |-> 0, text |-> "fetch failed",
       json |-> FALSE, reply |-> Undefined],
      [fetchThrows |-> FALSE, ok |-> FALSE, status |-> 404,
       text |-> "{\"error\":\"model not found\"}", json |-> TRUE, reply |-> Undefined],
      [fetchThrows |-> FALSE, ok |-> FALSE, status |-> 503, text |-> "",
       json |-> FALSE, reply |-> Undefined],
      [fetchThrows |-> FALSE, ok |-> TRUE, status |-> 200, text |-> "<html>",
       json |-> FALSE, reply |-> Undefined],
      [fetchThrows |-> FALSE, ok |-> TRUE, status |-> 200, text |-> "{}",
       json |-> TRUE, reply |-> Undefined],
      [fetchThrows |-> FALSE, ok |-> TRUE, status |-> 200, text |-> "{...}",
       json |-> TRUE, reply |-> Str("")],
      [fetchThrows |-> FALSE, ok |-> TRUE, status |-> 200, text |-> "{...}",
       json |-> TRUE, reply |-> Str("Here is **the** summary.")] }

(***************************************************************************)
(* The page (Home in page.tsx): its React state, and the asynchronous      *)
(* calls of handleAsk and handleFileUpload that have not settled yet.      *)
(***************************************************************************)
VARIABLES
    chat,           \* useState: the transcript
    error,          \* useState: the banner text, Undefined for null
    message,        \* useState: the text of the input field
    loading,        \* useState
    uploadedFiles,  \* useState: the pending files
    model,          \* useState: "gemini" or "ollama"
    sends,          \* the calls of handleAsk that await their fetch
    uploads,        \* the calls of handleFileUpload that await a file read
    now,            \* Date.now() when it was last read
    outcome         \* what the fetch of the last settled send came to

clientVars == <<chat, error, message, loading, uploadedFiles, model, sends,
                uploads, now, outcome>>

vars == <<serverVars, clientVars>>

(***************************************************************************)
(* The handler as a state machine: POST runs up to the await of fetch (or  *)
(* to an early response), FetchReturns runs from there to the response.    *)
(***************************************************************************)
ServerInit ==
    /\ apiKeySet \in BOOLEAN
    /\ hpc = "idle"
    /\ handler = "ollama"
    /\ req = NoRequest
    /\ files = <<>>
    /\ blocks = <<>>
    /\ fullPrompt = ""
    /\ backendCalls = 0
    /\ backend = NoBackend
    /\ responses = 0
    /\ response = NoResponse
    /\ threw = FALSE

Early(fs, resp, caught) ==
    [next |-> "done", files |-> fs, blocks |-> <<>>, prompt |-> "",
     calls |-> 0, responses |-> 1, response |-> resp, threw |-> caught]

\* Lines 176-186: the prompt is sent, unless building it threw.
Dispatched(fs, asm) ==
    IF asm.threw THEN Early(fs, UnexpectedError(asm.msg), TRUE)
    ELSE [next |-> "calling", files |-> fs, blocks |-> asm.blocks,
          prompt |-> asm.prompt, calls |-> 1, responses |-> 0,
          response |-> NoResponse, threw |-> FALSE]

\* Lines 105-115 (and 315-331): validation, then the API key check.
Validated(h, key, msg, fs) ==
    IF IsEmptyRequest(msg, fs) THEN Early(fs, ValidationError, FALSE)
    ELSE IF ApiKeyMissing(h, key) THEN Early(fs, MissingKeyError, FALSE)
    ELSE Dispatched(fs, Assemble(h, msg, fs))

\* The handler from its entry to its first response or to its fetch call.
Receive(h, key, r) ==
    IF ~r.formOk
    THEN Early(<<>>, UnexpectedError("Failed to parse body as FormData."), TRUE)
    ELSE Validated(h, key, r.message, ParseFiles(r))

POST(h, r) ==
    /\ hpc = "idle"
    /\ \E step \in {Receive(h, apiKeySet, r)} :
           /\ hpc' = step.next
           /\ files' = step.files
           /\ blocks' = step.blocks
           /\ fullPrompt' = step.prompt
           /\ backendCalls' = step.calls
           /\ responses' = step.responses
           /\ response' = step.response
           /\ threw' = step.threw
    /\ handler' = h
    /\ req' = r
    /\ UNCHANGED <<apiKeySet, backend>>
    /\ UNCHANGED clientVars

\* response.json() of a body that is not JSON throws a SyntaxError.
JsonSyntaxError == "Unexpected token '<', \"<html>\" is not valid JSON"

\* The handler from the return of fetch to its response.
Reply(h, out, n) ==
    IF out.fetchThrows THEN UnexpectedError(out.text)
    ELSE IF ~out.ok THEN BackendError(h, out.status, out.text)
    ELSE IF ~out.json THEN UnexpectedError(JsonSyntaxError)
    ELSE SuccessResponse(IF Truthy(out.reply) THEN out.reply.s ELSE "", n)

FetchReturns(out) ==
    /\ hpc = "calling"
    /\ hpc' = "done"
    /\ backend' = out
    /\ response' = Reply(handler, out, Len(files))
    /\ responses' = responses + 1
    /\ threw' = (out.fetchThrows \/ (out.ok /\ ~out.json))
    /\ UNCHANGED <<apiKeySet, handler, req, files, blocks, fullPrompt, backendCalls>>
    /\ UNCHANGED clientVars

\* The handler holds no state between requests: the next one starts afresh.
NextRequest ==
    /\ hpc = "done"
    /\ hpc' = "idle"
    /\ handler' = "ollama"
    /\ req' = NoRequest
    /\ files' = <<>>
    /\ blocks' = <<>>
    /\ fullPrompt' = ""
    /\ backendCalls' = 0
    /\ backend' = NoBackend
    /\ responses' = 0
    /\ response' = NoResponse
    /\ threw' = FALSE
    /\ UNCHANGED apiKeySet
    /\ UNCHANGED clientVars

ServerNext ==
    \/ \E h \in Handlers, r \in Requests : POST(h, r)
    \/ \E out \in BackendOutcomes : FetchReturns(out)
    \/ NextRequest

(***************************************************************************)
(* The page: the values of its state.  A transcript entry that carries no  *)
(* files (files: undefined) has files = <<>>; an entry that carries files  *)
(* carries at least one.                                                   *)
(***************************************************************************)
ChatMessage(sender, text, fs) == [sender |-> sender, text |-> text, files |-> fs]

\* Line 48, without its leading emoji.
Welcome ==
    ChatMessage("system",
                "Welcome! I'm ScholarAI, your research assistant. Ask me anything about your research or upload files for analysis!",
                <<>>)

\* Line 207
FailureMessage == ChatMessage("ai", "Sorry, I could not process your request.", <<>>)

\* Line 87: 10 * 1024 * 1024
MaxSize == 10485760

\* Lines 98-103
SupportedTypes ==
    { "text/plain", "text/csv", "text/markdown", "text/html", "text/css",
      "text/javascript", "application/json", "application/xml", "text/xml",
      "application/pdf", "application/msword",
      "application/vnd.openxmlformats-officedocument.wordprocessingml.document",
      "image/png", "image/jpeg", "image/gif", "image/webp", "image/svg+xml" }

\* type.split('/')[1]
Subtype(type) == Split(type, "/")[2]

\* Line 105: the parts after the slash that a supported type may contain.
SupportedSubtypes == UNION { { Subtype(t) } : t \in SupportedTypes }

\* A variant of IsSupported that looks the type up in the list.
IsSupportedListed(type) == type \in SupportedTypes

\* Line 105
IsSupported(type) ==
    \/ \E sub \in SupportedSubtypes : Includes(type, sub)
    \/ StartsWith(type, "text/")

\* Lines 70-78: a data URL for images, PDF and Word files, else the text.
\* file.data is the text of a text file and the base64 form of the others.
ReadFileContent(file) ==
    IF StartsWith(file.type, "image/") \/ Includes(file.type, "pdf")
           \/ Includes(file.type, "word")
    THEN "data:" \o file.type \o ";base64," \o file.data
    ELSE file.data

\* Lines 114-120: the entry pushed for the file of 0-based index i that was
\* read at the time t; Date.now() is counted from the time the page loaded.
UploadedFile(file, t, i) ==
    [id |-> NumToString(t + i), name |-> file.name, size |-> file.size,
     type |-> file.type, content |-> ReadFileContent(file)]

\* Line 93
TooLarge(file) == "File " \o file.name \o " is too large. Maximum size is 10MB."

\* Line 108
NotSupported(file) ==
    "File type " \o file.type
        \o " is not supported. Please upload text, document, or image files."

\* Line 122
ReadFailed(file) == "Failed to read file " \o file.name

RECURSIVE Scan(_, _, _)
\* Lines 89-110: the loop of handleFileUpload from the 0-based index i up to
\* the next file it reads (or to the end of the batch), with the banner text
\* that the skipped files leave.
Scan(batch, i, err) ==
    IF i >= Len(batch) THEN [i |-> i, error |-> err]
    ELSE IF batch[i + 1].size > MaxSize
    THEN Scan(batch, i + 1, Str(TooLarge(batch[i + 1])))
    ELSE IF ~IsSupported(batch[i + 1].type)
    THEN Scan(batch, i + 1, Str(NotSupported(batch[i + 1])))
    ELSE [i |-> i, error |-> err]

\* Line 148
WithoutId(fs, id) == SelectSeq(fs, LAMBDA f : f.id # id)

\* The sequence q without its k-th element.
Remove(q, k) == SubSeq(q, 1, k - 1) \o SubSeq(q, k + 1, Len(q))

\* Lines 156-160
UserChatMessage(userMessage, fs) ==
    ChatMessage("user",
                IF userMessage # "" THEN userMessage ELSE "File analysis request",
                fs)

\* Line 181
ApiEndpoint(m) == IF m = "gemini" THEN "/api/gemini" ELSE "/api/ollama"

\* A variant of AppendChat that keeps the welcome and the new entry only.
RestartChat(prev, entry) == <<Head(prev), entry>>

\* setChat(prev => [...prev, entry])
AppendChat(prev, entry) == Append(prev, entry)

\* Line 451: the text input.
InputDisabled == loading

\* A variant of SendDisabled that leaves out "|| loading".
SendDisabledWhenEmpty == Trim(message) = "" /\ Len(uploadedFiles) = 0

\* Line 457: the send button.
SendDisabled == (Trim(message) = "" /\ Len(uploadedFiles) = 0) \/ loading

(***************************************************************************)
(* What a fetch of handleAsk comes to: it rejects (fetchThrows, text the   *)
(* message of the error), or it resolves with a status, a content type     *)
(* that is JSON or not, and a body that parses as JSON or not.             *)
(***************************************************************************)
FetchRejects(text) ==
    [fetchThrows |-> TRUE, text |-> text, status |-> 0, json |-> FALSE,
     parses |-> FALSE, body |-> NoResponse]

HtmlPage(status) ==
    [fetchThrows |-> FALSE, text |-> "", status |-> status, json |-> FALSE,
     parses |-> FALSE, body |-> NoResponse]

JsonBody(status, body) ==
    [fetchThrows |-> FALSE, text |-> "", status |-> status, json |-> TRUE,
     parses |-> TRUE, body |-> body]

\* A response that announces JSON and carries none.
BrokenBody(status) ==
    [fetchThrows |-> FALSE, text |-> "", status |-> status, json |-> TRUE,
     parses |-> FALSE, body |-> NoResponse]

\* A response as a handler returns it.
Returned(r) == JsonBody(r.status, r)

NoOutcome == HtmlPage(0)

\* response.ok
Ok(status) == status \in 200..299

\* A variant of Thrown whose last test is "data.success" alone.
ThrownUnlessSuccess(out) ==
    IF out.fetchThrows THEN Str(out.text)
    ELSE IF ~out.json
    THEN Str("Server returned HTML instead of JSON. Status: " \o NumToString(out.status))
    ELSE IF ~out.parses THEN Str("Unexpected end of JSON input")
    ELSE IF ~Ok(out.status)
    THEN Str(IF Truthy(out.body.error) THEN out.body.error.s
             ELSE "Server error: " \o NumToString(out.status))
    ELSE IF out.body.success THEN Undefined
    ELSE Str("Invalid response format from server")

\* Lines 185-204: the message of the error thrown in the try block, Undefined
\* where the block completes.
Thrown(out) ==
    IF out.fetchThrows THEN Str(out.text)
    ELSE IF ~out.json
    THEN Str("Server returned HTML instead of JSON. Status: " \o NumToString(out.status))
    ELSE IF ~out.parses THEN Str("Unexpected end of JSON input")
    ELSE IF ~Ok(out.status)
    THEN Str(IF Truthy(out.body.error) THEN out.body.error.s
             ELSE "Server error: " \o NumToString(out.status))
    ELSE IF out.body.success /\ Truthy(out.body.response) THEN Undefined
    ELSE Str("Invalid response format from server")

\* A variant of CaughtMessage without the default text.
CaughtMessageRaw(thrown) == thrown.s

\* Line 206: err.message || 'An unexpected error occurred'
CaughtMessage(thrown) ==
    IF Truthy(thrown) THEN thrown.s ELSE "An unexpected error occurred"

\* Lines 201 and 207: the entry the settled send appends.
ReplyEntry(out, thrown) ==
    IF thrown.def THEN FailureMessage ELSE ChatMessage("ai", out.body.response.s, <<>>)

\* Lines 205-206: the banner after the send settled.
ErrorAfter(err, thrown) == IF thrown.def THEN Str(CaughtMessage(thrown)) ELSE err

\* A variant of Finally: the two updates stand at the end of the try block
\* only, so a failed send keeps the flag and the files it found.
FinallySkipped(wasLoading, pending) ==
    [loading |-> wasLoading, uploadedFiles |-> pending]

\* A variant of Finally that resets the flag and leaves the pending files.
FinallyKeepsFiles(wasLoading, pending) ==
    [loading |-> FALSE, uploadedFiles |-> pending]

\* Lines 208-211: the finally block, on the loading flag and the pending
\* files it finds.
Finally(wasLoading, pending) == [loading |-> FALSE, uploadedFiles |-> <<>>]

(***************************************************************************)
(* The user's inputs and the bounds of a session.                          *)
(***************************************************************************)
MaxSends == 2       \* sends started in one session
MaxUploads == 1     \* calls of handleFileUpload awaiting a read at one time
MaxPending == 1     \* files pending or being read at one time
MaxNow == 0         \* the last time at which a read settles

\* A File the user selects or drops; readable = FALSE where the reader fails.
ChosenFile(n, sz, ty, d, r) ==
    [name |-> n, size |-> sz, type |-> ty, data |-> d, readable |-> r]

Notes == ChosenFile("notes.txt", 11, "text/plain", "hello world", TRUE)
Picture == ChosenFile("pic.png", 2048, "image/png", "iVBORw0KGgo=", TRUE)
Huge == ChosenFile("big.csv", MaxSize + 1, "text/csv", "a,b", TRUE)
Program == ChosenFile("tool.exe", 100, "application/x-msdownload", "TVqQ", TRUE)
Vanished == ChosenFile("gone.txt", 5, "text/plain", "", FALSE)

Batches ==
    { <<Notes>>, <<Huge, Picture>>, <<Program>>, <<Vanished>>, <<Notes, Picture>> }

TypedMessages == { "", "  ", "summarize" }

Models == { "gemini", "ollama" }

\* The responses of the handlers, and what else a fetch can come to.
FetchOutcomes ==
    { FetchRejects("Failed to fetch"), FetchRejects(""),
      HtmlPage(404), BrokenBody(200), JsonBody(500, NoResponse),
      Returned(ValidationError), Returned(MissingKeyError),
      Returned(SuccessResponse("", 1)),
      Returned(SuccessResponse("Here is **the** summary.", 1)) }

\* The files of a batch that handleFileUpload reads.
Eligible(batch) ==
    Cardinality({ i \in DOMAIN batch :
                    batch[i].size <= MaxSize /\ IsSupported(batch[i].type) })

\* The files that the batches still being read can add to the pending ones.
RECURSIVE InFlight(_)
InFlight(us) ==
    IF us = <<>> THEN 0 ELSE Eligible(Head(us).batch) + InFlight(Tail(us))

\* There is room, within the bounds, for the files of one more batch.
Room(batch, maxUploads, maxPending) ==
    /\ Len(uploads) < maxUploads
    /\ Len(uploadedFiles) + InFlight(uploads) + Eligible(batch) <= maxPending

\* The identifiers a pending file can have.
FileIds == { NumToString(n) : n \in 0..(MaxNow + MaxPending) }

UserTurns == Cardinality({ i \in DOMAIN chat : chat[i].sender = "user" })

(***************************************************************************)
(* The page as a state machine.  An event handler runs to its first await  *)
(* in one step, and the page is rendered again before the next event.      *)
(* The drag highlight, the model selector's open flag, the Ollama guide    *)
(* and the Ollama model name have no part in what follows and are left     *)
(* out.                                                                    *)
(***************************************************************************)
ClientInit ==
    /\ chat = <<Welcome>>
    /\ error = Undefined
    /\ message = ""
    /\ loading = FALSE
    /\ uploadedFiles = <<>>
    /\ model = "gemini"
    /\ sends = <<>>
    /\ uploads = <<>>
    /\ now = 0
    /\ outcome = NoOutcome

\* Line 441: onChange of the text input.
SetMessage(text) ==
    /\ ~InputDisabled
    /\ text # message
    /\ message' = text
    /\ UNCHANGED <<chat, error, loading, uploadedFiles, model, sends, uploads,
                   now, outcome>>
    /\ UNCHANGED serverVars

\* Lines 240 and 246
SetModel(m) ==
    /\ m # model
    /\ model' = m
    /\ UNCHANGED <<chat, error, message, loading, uploadedFiles, sends, uploads,
                   now, outcome>>
    /\ UNCHANGED serverVars

\* Lines 151-188: handleAsk up to its await of fetch.
HandleAsk ==
    /\ UserTurns < MaxSends
    /\ IF Trim(message) = "" /\ Len(uploadedFiles) = 0
       THEN UNCHANGED clientVars
       ELSE /\ chat' = AppendChat(chat, UserChatMessage(Trim(message), uploadedFiles))
            /\ message' = ""
            /\ loading' = TRUE
            /\ error' = Undefined
            /\ sends' = Append(sends, [message |-> Trim(message),
                                       files |-> uploadedFiles,
                                       endpoint |-> ApiEndpoint(model),
                                       at |-> Len(chat) + 1])
            /\ UNCHANGED <<uploadedFiles, model, uploads, now, outcome>>
    /\ UNCHANGED serverVars

\* Line 455: a click on the send button.
ClickSend == ~SendDisabled /\ HandleAsk

\* Lines 442-447: Enter in the text input.
PressEnter == ~InputDisabled /\ HandleAsk

\* The state updates of lines 200-210, on the error thrown (or none) and on
\* what the finally block leaves.
Settle(k, out, thrown, final) ==
    /\ chat' = AppendChat(chat, ReplyEntry(out, thrown))
    /\ error' = ErrorAfter(error, thrown)
    /\ loading' = final.loading
    /\ uploadedFiles' = final.uploadedFiles
    /\ sends' = Remove(sends, k)
    /\ outcome' = out

\* Lines 185-211: handleAsk from the settling of its fetch to its end.
FetchSettles(k, out) ==
    /\ k \in 1..Len(sends)
    /\ Settle(k, out, Thrown(out), Finally(loading, uploadedFiles))
    /\ UNCHANGED <<message, model, uploads, now>>
    /\ UNCHANGED serverVars

\* Lines 83-110 and 126: handleFileUpload up to its first await, or to its
\* end where it reads no file.
HandleFileUpload(batch) ==
    /\ Len(batch) > 0
    /\ \E s \in { Scan(batch, 0, error) } :
           /\ error' = s.error
           /\ uploads' = IF s.i >= Len(batch) THEN uploads
                         ELSE Append(uploads, [batch |-> batch, i |-> s.i,
                                               newFiles |-> <<>>])
    /\ UNCHANGED <<chat, message, loading, uploadedFiles, model, sends, now,
                   outcome>>
    /\ UNCHANGED serverVars

\* Lines 112-123: newFiles after the read of the file at u.i settled.
AfterRead(u, t) ==
    IF u.batch[u.i + 1].readable
    THEN Append(u.newFiles, UploadedFile(u.batch[u.i + 1], t, u.i))
    ELSE u.newFiles

\* Lines 121-123: the banner after the read of the file at u.i settled.
ErrorAfterRead(u, err) ==
    IF u.batch[u.i + 1].readable THEN err ELSE Str(ReadFailed(u.batch[u.i + 1]))

\* Lines 112-126, on the newFiles got and on where the loop stops next.
Resume(k, u, got, s) ==
    /\ error' = s.error
    /\ IF s.i >= Len(u.batch)
       THEN /\ uploadedFiles' = uploadedFiles \o got
            /\ uploads' = Remove(uploads, k)
       ELSE /\ uploads' = [uploads EXCEPT ![k] = [batch |-> u.batch, i |-> s.i,
                                                  newFiles |-> got]]
            /\ UNCHANGED uploadedFiles

\* handleFileUpload from the settling of a read, at the time t, to its next
\* await or its end.
ReadSettles(k, t) ==
    /\ k \in 1..Len(uploads)
    /\ t >= now
    /\ now' = t
    /\ Resume(k, uploads[k], AfterRead(uploads[k], t),
              Scan(uploads[k].batch, uploads[k].i + 1,
                   ErrorAfterRead(uploads[k], error)))
    /\ UNCHANGED <<chat, message, loading, model, sends, outcome>>
    /\ UNCHANGED serverVars

\* Lines 147-149 and 390: the remove button of a pending file.
RemoveFile(id) ==
    /\ \E i \in DOMAIN uploadedFiles : uploadedFiles[i].id = id
    /\ uploadedFiles' = WithoutId(uploadedFiles, id)
    /\ UNCHANGED <<chat, error, message, loading, model, sends, uploads, now,
                   outcome>>
    /\ UNCHANGED serverVars

\* Line 379: "Clear all", shown while files are pending.
ClearAll ==
    /\ Len(uploadedFiles) > 0
    /\ uploadedFiles' = <<>>
    /\ UNCHANGED <<chat, error, message, loading, model, sends, uploads, now,
                   outcome>>
    /\ UNCHANGED serverVars

\* Line 474: the close button of the banner, shown while error is truthy.
DismissError ==
    /\ Truthy(error)
    /\ error' = Undefined
    /\ UNCHANGED <<chat, message, loading, uploadedFiles, model, sends, uploads,
                   now, outcome>>
    /\ UNCHANGED serverVars

ClientNext ==
    \/ \E text \in TypedMessages : SetMessage(text)
    \/ \E m \in Models : SetModel(m)
    \/ ClickSend
    \/ PressEnter
    \/ \E k \in 1..MaxSends, out \in FetchOutcomes : FetchSettles(k, out)
    \/ \E batch \in Batches :
           Room(batch, MaxUploads, MaxPending) /\ HandleFileUpload(batch)
    \/ \E k \in 1..MaxUploads, t \in 0..MaxNow : ReadSettles(k, t)
    \/ \E id \in FileIds : RemoveFile(id)
    \/ ClearAll
    \/ DismissError

(***************************************************************************)
(* The specifications: the handlers serve requests while the page rests,   *)
(* and the page runs against every outcome of its fetch.                   *)
(***************************************************************************)
Init == ServerInit /\ ClientInit

Next == ServerNext

Spec == Init /\ [][Next]_vars

\* The page runs against a deployment whose API key is set.
ClientStart == Init /\ apiKeySet = TRUE

ClientSpec == ClientStart /\ [][ClientNext]_vars

(***************************************************************************)
(* The pending files alone: the page while nothing is sent, with several   *)
(* batches being read at one time and the clock running on.                *)
(***************************************************************************)
UploadMaxUploads == 2   \* calls of handleFileUpload awaiting a read at one time
UploadMaxPending == 3   \* files pending or being read at one time
UploadMaxNow == 1       \* the last time at which a read settles

Script == ChosenFile("job.py", 64, "text/x-python", "print(1)", TRUE)

UploadBatches ==
    { <<Notes>>, <<Notes, Picture>>, <<Vanished, Notes>>,
      <<Huge, Script, Program, Picture>> }

UploadFileIds ==
    { NumToString(n) : n \in 0..(UploadMaxNow + UploadMaxPending) }

UploadNext ==
    \/ \E batch \in UploadBatches :
           Room(batch, UploadMaxUploads, UploadMaxPending) /\ HandleFileUpload(batch)
    \/ \E k \in 1..UploadMaxUploads, t \in 0..UploadMaxNow : ReadSettles(k, t)
    \/ \E id \in UploadFileIds : RemoveFile(id)
    \/ ClearAll
    \/ DismissError

UploadSpec == ClientStart /\ [][UploadNext]_vars

(***************************************************************************)
(* The page with one file more, which the user attaches only while a send  *)
(* is awaiting its fetch: the attach button and the drop zone stay enabled *)
(* while loading (lines 408-436).                                          *)
(***************************************************************************)
LateBatches == { <<Script>> }

\* Lines 408-436: a file is chosen or dropped while a send is in flight.
AttachInFlight(batch) ==
    /\ sends # <<>>
    /\ Room(batch, MaxUploads, MaxPending)
    /\ HandleFileUpload(batch)

LateNext ==
    \/ ClientNext
    \/ \E batch \in LateBatches : AttachInFlight(batch)

LateSpec == ClientStart /\ [][LateNext]_vars

(***************************************************************************)
(* Properties of the request handlers, checked under Spec.                 *)
(***************************************************************************)

\* The files whose blocks are in the prompt: once the loop has run, blocks[i]
\* is the block of files[i].
PromptBuilt == hpc \in {"calling", "done"} /\ Len(blocks) = Len(files)

\* The rule of the handler's if/else chain that file i falls under.
KindOf(i) == Dispatch(handler, files[i])

IsTextual(i) == KindOf(i) \in {"text", "csv", "json"}

\* C1, as the specification states it: the block appended for a text, CSV or
\* JSON file is at most 4000 characters long, the truncation notice included.
C1_BlockAtMost4000 ==
    PromptBuilt => \A i \in DOMAIN blocks : IsTextual(i) => Len(blocks[i]) <= 4000

\* C1, amended: the block appended for a text, CSV or JSON file is at most
\* 4000 characters of content, followed, where content was cut, by the
\* 35-character truncation notice: at most 4035 characters in all, and a
\* block longer than 4000 characters is exactly 4035 long and ends with the
\* notice.
C1_BlockAtMost4000PlusNotice ==
    PromptBuilt =>
        \A i \in DOMAIN blocks :
            IsTextual(i) =>
                /\ Len(blocks[i]) <= 4035
                /\ Len(blocks[i]) > 4000 =>
                       /\ Len(blocks[i]) = 4035
                       /\ EndsWith(blocks[i], "\n\n[Content truncated due to length]")

\* A text file of more than 4000 characters has a block of 4035.
C1_Witness ==
    /\ PromptBuilt
    /\ \E i \in DOMAIN blocks : KindOf(i) = "text" /\ Len(blocks[i]) = 4035

\* The form carries a file entry that the handler's parse loop reads and
\* that parses as JSON.
SubmitsFile(r) ==
    \E i \in 1..Len(r.entries) :
        i <= r.fileCount /\ r.entries[i].kind \notin {"absent", "malformed"}

\* C2: in both handlers a request (a readable form) with an empty or absent
\* message and no file field yields HTTP 400 with success false, and no call
\* to the model backend is made for it.
C2_EmptyRequestRejected ==
    (hpc # "idle" /\ req.formOk /\ ~Truthy(req.message) /\ req.entries = <<>>) =>
        /\ hpc = "done"
        /\ response.status = 400
        /\ response.success = FALSE
        /\ backendCalls = 0

\* The cloud handler, without an API key, rejects the empty request with 400.
C2_Witness ==
    /\ hpc = "done" /\ handler = "gemini" /\ ~apiKeySet
    /\ req.formOk /\ req.message = Str("") /\ req.entries = <<>> /\ req.fileCount = 0
    /\ response.status = 400 /\ backendCalls = 0

NamesMissingKey(resp) == resp.error.def /\ Includes(resp.error.s, "API key not set")

\* C3, as the specification states it: every request to the cloud handler
\* made while no API key is configured yields HTTP 500 with an error naming
\* the missing key, and no call to the cloud API is made.
C3_NoKeyAlways500 ==
    (hpc # "idle" /\ handler = "gemini" /\ ~apiKeySet) =>
        /\ hpc = "done"
        /\ response.status = 500
        /\ NamesMissingKey(response)
        /\ backendCalls = 0

\* C3, amended: while no API key is configured the cloud handler never calls
\* the cloud API; a request whose form is readable and carries a message or a
\* parsable file entry yields HTTP 500 with an error naming the missing key;
\* a readable form with neither yields 400 (validation comes first), and an
\* unreadable form yields 500 with an "Unexpected error" text.
C3_NoKey500UnlessEmpty ==
    (hpc # "idle" /\ handler = "gemini" /\ ~apiKeySet) =>
        /\ hpc = "done"
        /\ backendCalls = 0
        /\ response.success = FALSE
        /\ IF ~req.formOk
           THEN response.status = 500 /\ StartsWith(response.error.s, "Unexpected error: ")
           ELSE IF Truthy(req.message) \/ SubmitsFile(req)
           THEN response.status = 500 /\ NamesMissingKey(response)
           ELSE response.status = 400

\* A request with a message and a file, sent while no key is configured.
C3_Witness ==
    /\ hpc = "done" /\ handler = "gemini" /\ ~apiKeySet
    /\ Truthy(req.message) /\ Len(files) = 1
    /\ response.status = 500 /\ NamesMissingKey(response) /\ backendCalls = 0

\* C4, as the specification states it: no failure while handling one
\* submitted file makes the request fail.  A request with a readable form, a
\* message and (cloud handler) a configured key is valid whatever its files
\* are, so it proceeds to the backend call, and each of its file entries has
\* a block in the prompt.
C4_FileFailureNeverFailsRequest ==
    (hpc # "idle" /\ req.formOk /\ Truthy(req.message)
         /\ (handler = "gemini" => apiKeySet)) =>
        /\ backendCalls = 1
        /\ Len(blocks) = Len(files)

\* The request was handled in full: one response, through no other path.
Handled == hpc = "done"

\* The backend was called and answered with a status that is not OK.
BackendFailed == backendCalls = 1 /\ ~backend.fetchThrows /\ ~backend.ok

\* C5, as the specification states it: one response per request, 400 exactly
\* when neither a message nor any file was supplied, 500 exactly when the
\* backend call fails, an exception occurs or (cloud handler) no key is
\* configured, 200 otherwise; success exactly when the status is 200.
C5_StatusByCause ==
    Handled =>
        /\ responses = 1
        /\ response.status \in {200, 400, 500}
        /\ response.status = 400 <=>
               (req.formOk /\ ~Truthy(req.message) /\ req.entries = <<>>)
        /\ response.status = 500 <=>
               (BackendFailed \/ threw \/ (handler = "gemini" /\ ~apiKeySet))
        /\ response.success <=> response.status = 200

\* C5, amended: one response per request; 400 exactly when the form is
\* readable and carries neither a message nor a file entry that the handler
\* reads and parses, whether or not a key is configured; 500 exactly when the
\* request is not such an empty one and the key is missing (cloud handler),
\* an exception occurs or the backend answers with a status that is not OK;
\* 200 otherwise; success exactly when the status is 200.
C5_StatusByCauseInOrder ==
    Handled =>
        /\ responses = 1
        /\ response.status \in {200, 400, 500}
        /\ response.status = 400 <=>
               (req.formOk /\ ~Truthy(req.message) /\ ~SubmitsFile(req))
        /\ response.status = 500 <=>
               /\ ~(req.formOk /\ ~Truthy(req.message) /\ ~SubmitsFile(req))
               /\ BackendFailed \/ threw \/ (handler = "gemini" /\ ~apiKeySet)
        /\ response.success <=> response.status = 200

\* A form whose only file entry does not parse, and no message: 400, although
\* a file was supplied.
C5_Witness ==
    /\ Handled /\ req.formOk /\ ~Truthy(req.message)
    /\ req.fileCount = 1 /\ Len(req.entries) = 1 /\ req.entries[1].kind = "malformed"
    /\ response.status = 400 /\ responses = 1

\* The whitespace of line.trim(), and the null characters that decoding
\* removes.
IsBlankChar(c) == IsWhiteSpace(c) \/ c = NUL

\* The positions of the line ends (carriage return, line feed) of a text.
LineEnds(s) == { e \in 1..Len(s) : At(s, e) \in {"\n", "\r"} }

\* The line end that follows position e, or the end of the text.
NextEnd(s, ends, e) == SetMin({ x \in ends : x > e } \cup { Len(s) + 1 })

\* The lines, each known by the line end before it (0 for the first line),
\* that hold a character that is not blank.
NonBlankLines(s, ends) ==
    { e \in ends \cup {0} :
        \E j \in (e + 1)..(NextEnd(s, ends, e) - 1) : ~IsBlankChar(At(s, j)) }

\* The number of non-blank lines of a text.
RowCount(s) == Cardinality(NonBlankLines(s, LineEnds(s)))

MoreRows(n) == "\n\n... and " \o NumToString(n - 20) \o " more rows"

ReportsRows(block, n) == Includes(block, "\nRows: " \o NumToString(n) \o "\n")

IsCsv(i) == KindOf(i) = "csv" /\ files[i].content.def

\* Of a block and of the n non-blank rows of its file: the block reports n
\* and ends with the suffix for n - 20.
RowsAndRest(block, n) ==
    n > 20 => ReportsRows(block, n) /\ EndsWith(block, MoreRows(n))

RowsAndRestUnlessCut(block, n, length) ==
    n > 20 =>
        /\ ReportsRows(block, n)
        /\ \/ Len(block) <= 4000 /\ EndsWith(block, MoreRows(n))
           \/ /\ Len(block) = 4035
              /\ EndsWith(block, "\n\n[Content truncated due to length]")
        /\ length <= 3900 => EndsWith(block, MoreRows(n))

C6_OneRequestOutstanding == Len(sends) <= 1

\* A send is outstanding, and a file attached meanwhile is pending: only the
\* disabled send button stands between the user and a second send.
C6_Witness ==
    /\ Len(sends) = 1 /\ loading
    /\ Len(uploadedFiles) > 0
    /\ UserTurns < MaxSends

\* A step in which a send settles.
SendSettles == Len(sends') < Len(sends)

\* C7: after every send completes, whether the request succeeded or failed
\* in any way, the pending-file list is empty and the loading flag is false.
C7_SendLeavesNothingPending ==
    [][SendSettles => (uploadedFiles' = <<>> /\ loading' = FALSE)]_vars

\* The request failed in one of the ways the page tells apart: the fetch
\* rejected, the response is not JSON, its status is not OK, or its body
\* does not parse, does not say success or carries no reply text.
RequestFailed(out) ==
    \/ out.fetchThrows
    \/ ~out.json
    \/ ~out.parses
    \/ out.status < 200 \/ out.status > 299
    \/ ~out.body.success
    \/ ~out.body.response.def
    \/ out.body.response.s = ""

\* A send of files failed and has settled: nothing is pending, nothing loads.
C7_Witness ==
    /\ sends = <<>> /\ outcome # NoOutcome /\ RequestFailed(outcome)
    /\ chat[Len(chat)] = FailureMessage
    /\ chat[Len(chat) - 1].sender = "user" /\ chat[Len(chat) - 1].files # <<>>
    /\ uploadedFiles = <<>> /\ loading = FALSE

\* A step in which the user dismisses the banner.
Dismisses == Truthy(error) /\ error' = Undefined /\ sends' = sends

\* C8: every send whose request fails ends with the banner set to an error
\* string and with exactly one generic failure message appended to the
\* transcript, directly after that send's user message; dismissing the
\* banner leaves the transcript as it is.
C8_FailureShownAndRecorded ==
    [][/\ \A k \in DOMAIN sends :
              (sends' = Remove(sends, k) /\ RequestFailed(outcome')) =>
                  /\ error'.def /\ error'.s # ""
                  /\ chat' = Append(chat, FailureMessage)
                  /\ Len(chat) = sends[k].at
                  /\ chat[sends[k].at].sender = "user"
                  /\ chat[sends[k].at].files = sends[k].files
       /\ Dismisses => chat' = chat]_vars

\* A failed send whose banner the user has dismissed: the failure message is
\* still the last entry of the transcript.
C8_Witness ==
    /\ sends = <<>> /\ outcome # NoOutcome /\ RequestFailed(outcome)
    /\ error = Undefined
    /\ Len(chat) = 3 /\ chat[2].sender = "user" /\ chat[3] = FailureMessage

\* C9: across any sequence of actions the transcript is append-only: its
\* length never decreases and every entry in it (sender, text, attached
\* file snapshots) stays as it was, also after the pending-file list is
\* cleared or edited.
C9_TranscriptAppendOnly ==
    [][Len(chat') >= Len(chat) /\ SubSeq(chat', 1, Len(chat)) = chat]_vars

\* Two turns have been recorded, the first with a file; the pending-file
\* list has been cleared since, and the files of the first turn are still in
\* the transcript.
C9_Witness ==
    /\ Len(chat) = 5
    /\ chat[2].sender = "user" /\ Len(chat[2].files) = 1
    /\ chat[4].sender = "user" /\ chat[4].files = <<>>
    /\ uploadedFiles = <<>> /\ sends = <<>>

(***************************************************************************)
(* JSON normalization.                                                     *)
(***************************************************************************)
IsJson(i) == KindOf(i) = "json" /\ files[i].content.def

\* The label in front of the pretty-printed text of a JSON file.
ContentLabel(name) == "JSON File: " \o Tpl(name) \o "\nContent:\n"

RECURSIVE NonFiniteAsNull(_)
\* The value v with every Infinity and -Infinity in it replaced by null.
NonFiniteAsNull(v) ==
    IF v.t = "inf" THEN JLit("null")
    ELSE IF v.t \in {"arr", "obj"}
    THEN [v EXCEPT !.items = [k \in DOMAIN v.items |-> NonFiniteAsNull(v.items[k])]]
    ELSE v

\* Of a block, its label, the parse of the file's content and the value
\* expected back: where the content is valid JSON with a pretty-printed form
\* under 3000 characters, the text after the label parses to that value.
ParsesBackTo(block, label, parsed, expected) ==
    (parsed.ok /\ Len(Stringify(parsed.val, 0)) < 3000) =>
        /\ StartsWith(block, label)
        /\ JsonParse(SliceFrom(block, Len(label))) = ParseOk(expected, Len(block) - Len(label) + 1)

\* The parse of the file's content and the value read from it, for ParsesBackTo.
ParsesBack(block, label, parsed) ==
    ParsesBackTo(block, label, parsed, parsed.val)

\* C11, as the specification states it: for every valid JSON input whose
\* pretty-printed form is under 3000 characters, the JSON text emitted after
\* the label parses back to a value equal to the parsed input.
C11_JsonRoundTrip ==
    PromptBuilt =>
        \A i \in DOMAIN blocks :
            IsJson(i) =>
                ParsesBack(blocks[i], ContentLabel(files[i].name),
                           JsonParse(files[i].content.s))

ParsesBackFinite(block, label, parsed) ==
    ParsesBackTo(block, label, parsed, NonFiniteAsNull(parsed.val))

\* C11, amended: for every valid JSON input whose pretty-printed form is
\* under 3000 characters, the JSON text emitted after the label parses back
\* to the parsed input with every number outside the range of a double
\* (read as Infinity or -Infinity, for example 1e400) replaced by null, and
\* so to the parsed input itself where it holds no such number.
C11_JsonRoundTripButInfinity ==
    PromptBuilt =>
        \A i \in DOMAIN blocks :
            IsJson(i) =>
                ParsesBackFinite(blocks[i], ContentLabel(files[i].name),
                                 JsonParse(files[i].content.s))

\* A JSON file with 1e400 in it has been pretty-printed, with null in the
\* place of the number.
C11_Witness ==
    /\ PromptBuilt
    /\ \E i \in DOMAIN blocks :
           /\ IsJson(i)
           /\ Includes(files[i].content.s, "1e400")
           /\ Includes(blocks[i], "\"max\": null")

\* The label in front of the text of a JSON file that does not parse.
RawLabel(name) == "JSON File: " \o Tpl(name) \o "\nRaw content (invalid JSON):\n"

\* Of a block, its label, the text handed to processJSONContent and the
\* parse of that text: where the text is not valid JSON, the block is the
\* label followed by the first 2000 characters of the text, or by all of the
\* text if it is shorter.
RawCopied(block, label, input, parsed) ==
    ~parsed.ok =>
        /\ StartsWith(block, label)
        /\ Len(block) - Len(label) = Min2(2000, Len(input))
        /\ StartsWith(input, SliceFrom(block, Len(label)))

RawCopiedOf(block, label, input) == RawCopied(block, label, input, JsonParse(input))

\* C12: for every input that is not valid JSON, the empty content included,
\* JSON normalization does not throw (the file's block is appended) and its
\* output begins with the raw-content label, followed by at most the first
\* 2000 characters of the input.
C12_InvalidJsonCopiedRaw ==
    PromptBuilt =>
        \A i \in DOMAIN blocks :
            KindOf(i) = "json" =>
                RawCopiedOf(blocks[i], RawLabel(files[i].name),
                            DecodeTextContent(files[i].content, files[i].name))

\* A JSON file of 2500 characters that do not parse has a block of the label
\* and 2000 of them.
C12_Witness ==
    /\ PromptBuilt
    /\ \E i \in DOMAIN blocks :
           /\ KindOf(i) = "json"
           /\ files[i].content = Str(Rep("x", 2500))
           /\ blocks[i] = RawLabel(files[i].name) \o Rep("x", 2000)

(***************************************************************************)
(* Image files.                                                            *)
(***************************************************************************)
\* File i was submitted with a declared type image/*.
IsImage(i) == files[i].type.def /\ StartsWith(files[i].type.s, "image/")

\* The base64 payload of a data URL: what follows its first comma, up to
\* the next one; "" for a content without a comma or without a content.
PayloadOf(content) ==
    IF content.def /\ Len(Split(content.s, ",")) >= 2
    THEN Split(content.s, ",")[2]
    ELSE ""

\* The prompt holds neither the content of the file nor its payload.
PayloadKeptOut(prompt, content, payload) ==
    /\ Truthy(content) => ~Includes(prompt, content.s)
    /\ payload # "" => ~Includes(prompt, payload)

\* C13, as the specification states it: for every submitted file whose
\* declared type is image/*, whatever its content is, the block of the file
\* contains the phrase "Base64 encoded image" and the prompt never contains
\* the file's raw base64 payload.
C13_ImageAlwaysDescribed ==
    PromptBuilt =>
        \A i \in DOMAIN blocks :
            IsImage(i) =>
                /\ Includes(blocks[i], "Base64 encoded image")
                /\ PayloadKeptOut(fullPrompt, files[i].content, PayloadOf(files[i].content))

\* Of the block of an image file and of the file's payload.
DescribedOrUndecodable(block, payload) ==
    IF payload # ""
    THEN /\ Includes(block, "Base64 encoded image")
         /\ Includes(block, " " \o NumToString(Len(payload)) \o " characters of data")
    ELSE block = "[Image content could not be decoded]"

\* C13, amended: for every submitted file whose declared type is image/*,
\* the block of the file contains the phrase "Base64 encoded image" and the
\* length of the payload where the content has a non-empty part after its
\* first comma; where it has not (no comma, nothing after it, no content)
\* the block is "[Image content could not be decoded]", without the phrase.
\* In both cases the prompt never contains the file's content or payload.
C13_ImageDescribedOrUndecodable ==
    PromptBuilt =>
        \A i \in DOMAIN blocks :
            IsImage(i) =>
                /\ DescribedOrUndecodable(blocks[i], PayloadOf(files[i].content))
                /\ PayloadKeptOut(fullPrompt, files[i].content, PayloadOf(files[i].content))

\* An image file whose content is base64 text without the data URL prefix
\* has the block of an undecodable image.
C13_Witness ==
    /\ PromptBuilt
    /\ \E i \in DOMAIN blocks :
           /\ IsImage(i)
           /\ files[i].content = Str("iVBORw0KGgo=")
           /\ blocks[i] = "[Image content could not be decoded]"

(***************************************************************************)
(* The file sections of the prompt.                                        *)
(***************************************************************************)
\* The fields file_0 .. file_{fileCount-1} of the request that hold a value.
Submitted(r) ==
    SelectSeq(SubSeq(r.entries, 1, Min2(r.fileCount, Len(r.entries))),
              LAMBDA e : e.kind # "absent")

\* Those of them whose value parses as JSON.
Parsed(r) == SelectSeq(Submitted(r), LAMBDA e : e.kind # "malformed")

\* The number of file sections in a prompt.
SectionCount(prompt) == Cardinality(Matches(prompt, "\n\n--- File "))

RECURSIVE SectionsFrom(_, _, _)
\* The sections of the files fs[i..], each labelled with its number and
\* followed by its block of bs.
SectionsFrom(fs, bs, i) ==
    IF i > Len(fs) THEN ""
    ELSE "\n\n--- File " \o NumToString(i) \o ": " \o Tpl(fs[i].name)
             \o " (" \o Tpl(fs[i].type) \o ") ---\n" \o bs[i]
             \o SectionsFrom(fs, bs, i + 1)

\* The prompt ends with the sections of fs, in order, and the closing
\* instruction, and holds no other section.
SectionsInOrder(prompt, fs, bs) ==
    /\ SectionCount(prompt) = Len(fs)
    /\ Len(fs) > 0 => EndsWith(prompt, SectionsFrom(fs, bs, 1) \o FilesOutro)
    /\ \A i \in DOMAIN fs : bs[i] = FileBlock(handler, fs[i])

\* The prompt was assembled and sent to the model API.
PromptSent == PromptBuilt /\ backendCalls = 1

MessageAndTextFile ==
    /\ PromptSent
    /\ Truthy(req.message)
    /\ Len(req.entries) = 1 /\ Len(files) = 1
    /\ KindOf(1) = "text"
    /\ Truthy(files[1].content)

\* The handler has answered a backend call that succeeded with a JSON body:
\* its response carries the reply text of the body, "" where it has none,
\* and counts n files.
ReplyReturned(n) ==
    (hpc = "done" /\ backend.ok /\ backend.json) =>
        /\ response.success /\ response.status = 200
        /\ response.response = (IF backend.reply.def THEN backend.reply ELSE Str(""))
        /\ response.filesProcessed = n

\* C16, as the specification states it: for a request with a non-empty
\* message m and one plain-text file with non-empty content c, the prompt
\* sent to the backend contains both m and c literally, and when the backend
\* call succeeds the handler returns the backend's reply text unchanged as
\* response, with filesProcessed equal to the number of submitted files.
C16_MessageAndContentLiteral ==
    MessageAndTextFile =>
        /\ Includes(fullPrompt, req.message.s)
        /\ Includes(fullPrompt, files[1].content.s)
        /\ ReplyReturned(1)

\* The text has nothing that decodeTextContent removes or replaces.
IsClean(c) ==
    /\ ~Includes(c, "\r") /\ ~Includes(c, NUL)
    /\ ~IsWhiteSpace(At(c, 1)) /\ ~IsWhiteSpace(At(c, Len(c)))

\* Of the prompt, the block of the file, its content and its name.
ContentAsCleaned(prompt, block, c, name) ==
    /\ Includes(prompt, " ---\n" \o block \o FilesOutro)
    /\ block = LimitContent(DecodeTextContent(Str(c), name))
    /\ (IsClean(c) /\ Len(c) <= 4000) => block = c
    /\ (IsClean(c) /\ Len(c) > 4000) =>
           block = Sub(c, 1, 4000) \o "\n\n[Content truncated due to length]"

\* C16, amended: for a request with a non-empty message m and one
\* plain-text file with non-empty content c, the prompt sent to the backend
\* contains m literally and the normalized content of the file: c without a
\* leading byte order mark, with its line endings turned into line feeds,
\* without null characters and trimmed (a note in place of a content that is
\* empty after that), cut at 4000 characters with a notice appended where it
\* is longer.  The prompt contains c literally where c is not changed by
\* these steps and is at most 4000 characters long.  When the backend call
\* succeeds with a JSON body the handler returns its reply text unchanged as
\* response ("" where the body has none), with filesProcessed = 1.
C16_MessageLiteralContentCleaned ==
    MessageAndTextFile =>
        /\ Includes(fullPrompt, "\n\nUser message: " \o req.message.s \o "\n\n")
        /\ ContentAsCleaned(fullPrompt, blocks[1], files[1].content.s, files[1].name)
        /\ ReplyReturned(1)

\* The request of "summarize" and a text file with a byte order mark,
\* carriage returns and a null character has been answered with the reply of
\* the backend; its prompt holds the cleaned text.
C16_Witness ==
    /\ MessageAndTextFile
    /\ req.message = Str("summarize")
    /\ files[1].content = Str("^a\r\nb\rc~d  ")
    /\ blocks[1] = "a\nb\ncd"
    /\ hpc = "done"
    /\ response = SuccessResponse("Here is **the** summary.", 1)

(***************************************************************************)
(* A backend that answers with an error status.                            *)
(***************************************************************************)
\* C17: in both handlers, whenever the model API answers with a non-success
\* HTTP status the request ends with HTTP 500 and success: false, the error
\* string contains the status and the error text of the backend, and the
\* call is not attempted a second time.
C17_BackendErrorSurfacedOnce ==
    /\ backendCalls <= 1
    /\ (Handled /\ BackendFailed) =>
           /\ response.status = 500 /\ ~response.success
           /\ response.error.def
           /\ Includes(response.error.s, NumToString(backend.status))
           /\ Includes(response.error.s, backend.text)
           /\ EndsWith(response.error.s,
                       " API error: " \o NumToString(backend.status) \o " - "
                           \o backend.text)
           /\ backendCalls = 1 /\ responses = 1

\* A handler has answered a backend that said 404 with an error text.
C17_Witness ==
    /\ Handled /\ BackendFailed
    /\ backend.status = 404 /\ backend.text = "{\"error\":\"model not found\"}"
    /\ response.status = 500
    /\ Includes(response.error.s, "404 - {\"error\":\"model not found\"}")

(***************************************************************************)
(* The rule a file is normalized by.                                       *)
(***************************************************************************)
\* The first rule that matches the type ty or the lower-case name, in the
\* order image, CSV, JSON, PDF, DOCX, plain text.
FirstRule(ty, name) ==
    IF StartsWith(ty, "image/") THEN "image"
    ELSE IF Includes(ty, "csv") \/ EndsWith(name, ".csv") THEN "csv"
    ELSE IF Includes(ty, "json") \/ EndsWith(name, ".json") THEN "json"
    ELSE IF Includes(ty, "pdf") \/ EndsWith(name, ".pdf") THEN "pdf"
    ELSE IF Includes(ty, "wordprocessingml.document") \/ EndsWith(name, ".docx")
    THEN "docx"
    ELSE "text"

\* The label that the block of a PDF or DOCX file starts with.
RuleLabel(rule) ==
    IF rule = "pdf" THEN "PDF File: "
    ELSE IF rule = "docx" THEN "DOCX File: "
    ELSE ""

\* File i was handled by the rule, as its block shows.
HandledBy(i, rule) ==
    /\ KindOf(i) = rule
    /\ StartsWith(blocks[i], RuleLabel(rule))

CloudFirstRule(ty, name) ==
    IF StartsWith(ty, "image/") THEN "image"
    ELSE IF Includes(ty, "csv") \/ EndsWith(name, ".csv") THEN "csv"
    ELSE IF Includes(ty, "json") \/ EndsWith(name, ".json") THEN "json"
    ELSE IF Includes(ty, "pdf") THEN "pdf"
    ELSE "text"

RuleOf(h, ty, name) ==
    IF h = "ollama" THEN FirstRule(ty, name) ELSE CloudFirstRule(ty, name)

IsPdf(file) ==
    Includes(file.type.s, "pdf") \/ EndsWith(ToLowerCase(file.name.s), ".pdf")

\* The file is a DOCX file by its declared type or by its filename.
IsDocx(file) ==
    \/ Includes(file.type.s, "wordprocessingml.document")
    \/ EndsWith(ToLowerCase(file.name.s), ".docx")

\* What the prompt of handler h holds after its preamble.
AfterPreamble(h, prompt) == SliceFrom(prompt, Len(Preamble(h)))

OtherHandler(h) == IF h = "ollama" THEN "gemini" ELSE "ollama"

\* The prompt that the other handler assembles for the same request.
OtherAssembly == Assemble(OtherHandler(handler), req.message, files)

\* Of the assembly of the other handler: it has the same block for every
\* file that is not Special, and where no file is Special the same prompt
\* after the preamble.
SameButFor(other, Special(_)) ==
    /\ ~other.threw /\ Len(other.blocks) = Len(blocks)
    /\ \A i \in DOMAIN blocks : ~Special(files[i]) => other.blocks[i] = blocks[i]
    /\ (\A i \in DOMAIN blocks : ~Special(files[i])) =>
           AfterPreamble(OtherHandler(handler), other.prompt)
               = AfterPreamble(handler, fullPrompt)

IsPdfOrDocx(file) == IsPdf(file) \/ IsDocx(file)

Outline(fs) == [i \in DOMAIN fs |-> <<fs[i].name, fs[i].size, fs[i].type>>]

\* The files that a step appends to the pending ones.
Added == SubSeq(uploadedFiles', Len(uploadedFiles) + 1, Len(uploadedFiles'))

\* The step is the end of the call of handleFileUpload at position k.
BatchEnds(k) == k \in DOMAIN uploads /\ uploads' = Remove(uploads, k)

\* The step appends the files of the batch that satisfy Test, in batch order.
AddsThose(batch, Test(_)) ==
    /\ uploadedFiles' = uploadedFiles \o Added
    /\ Outline(Added) = Outline(SelectSeq(batch, Test))

OnAllowList(file) == file.size <= 10 * 1024 * 1024 /\ file.type \in SupportedTypes

\* C15, as the specification states it: a file of a batch is added to the
\* pending files if and only if its size is at most 10MB and its MIME type
\* is on the allow-list; the files added are added in batch order, whatever
\* files of the batch were skipped.
C15_AddedIffOnAllowList ==
    [][\A k \in DOMAIN uploads :
           BatchEnds(k) => AddsThose(uploads[k].batch, OnAllowList)]_vars

\* The part of a type after its slash is what line 105 looks for.
PassesFilter(type) ==
    \/ StartsWith(type, "text/")
    \/ \E sub \in { "plain", "csv", "markdown", "html", "css", "javascript",
                     "json", "xml", "pdf", "msword",
                     "vnd.openxmlformats-officedocument.wordprocessingml.document",
                     "png", "jpeg", "gif", "webp", "svg+xml" } :
           Includes(type, sub)

Taken(file) ==
    file.size <= 10 * 1024 * 1024 /\ PassesFilter(file.type) /\ file.readable

\* C15, amended: a file of a batch is added to the pending files if and
\* only if its size is at most 10MB, its MIME type starts with "text/" or
\* contains the subtype of a type of the allow-list (so that types that are
\* not on the list, such as text/x-python, pass), and the read of the file
\* succeeds; the files added are added in batch order, whatever files of the
\* batch were skipped.
C15_AddedIffFilterPassedAndRead ==
    [][\A k \in DOMAIN uploads :
           BatchEnds(k) => AddsThose(uploads[k].batch, Taken)]_vars

\* The batch of a file too large, a Python script, a program and a picture
\* has been read: the script and the picture are pending, in this order.
C15_Witness ==
    /\ uploads = <<>>
    /\ Outline(uploadedFiles) = << <<"job.py", 64, "text/x-python">>,
                                   <<"pic.png", 2048, "image/png">> >>

\* C20: at every moment no two files of the pending list share an
\* identifier, also while several batches are being read at one time, so
\* that removeFile(id) removes exactly one file.
C20_PendingIdsDistinct ==
    \A i, j \in DOMAIN uploadedFiles :
        i # j => uploadedFiles[i].id # uploadedFiles[j].id

(***************************************************************************)
(* The files of a request.  The formulas below are about LateSpec, where   *)
(* job.py is attached only while a send is in flight.                      *)
(***************************************************************************)

\* A file of that name is among fs.
Named(fs, name) == \E i \in DOMAIN fs : fs[i].name = name

\* A request carries a file of that name: one awaiting its fetch, or an
\* earlier one, whose files the user's entry of the transcript records
\* (lines 155-176: both are taken from uploadedFiles in the same call).
Requested(name) ==
    \/ \E k \in DOMAIN sends : Named(sends[k].files, name)
    \/ \E i \in DOMAIN chat : chat[i].sender = "user" /\ Named(chat[i].files, name)

\* A step in which a send starts.
SendStarts == Len(sends') > Len(sends)

\* C21: the files sent by a send are exactly the snapshot of the pending
\* files taken when the send starts; a file attached (or whose read
\* finishes) while that send is in flight is not part of the request, the
\* clear after the send removes it from the pending files together with the
\* sent ones, and so it is never included in any request.
C21_LateFileNeverRequested == ~Requested(Script.name)

\* C21, as the code has it: the files sent by a send are exactly the
\* pending files when the send starts, and nothing changes them while the
\* send is in flight; a file whose batch ends while the send is in flight is
\* not part of that request and is removed by the clear after the send; the
\* clear leaves the batches that are still being read as they are, so that
\* their files become pending after it and can be part of a later request.
C21_SnapshotSentAndPendingCleared ==
    [][/\ SendStarts =>
              /\ sends' = Append(sends, sends'[Len(sends')])
              /\ sends'[Len(sends')].files = uploadedFiles
              /\ chat'[Len(chat')].files = uploadedFiles
       /\ ~SendStarts /\ ~SendSettles => sends' = sends
       /\ SendSettles =>
              /\ uploadedFiles' = <<>>
              /\ uploads' = uploads
              /\ \A k \in DOMAIN sends' : \E j \in DOMAIN sends : sends'[k] = sends[j]]_vars

\* job.py was attached while the first send was in flight and read after
\* that send had settled: it is pending after the clear, and the second
\* send carries it.
C21_Witness ==
    /\ Len(chat) = 4
    /\ chat[2].sender = "user" /\ chat[2].files = <<>>
    /\ chat[4].sender = "user" /\ Named(chat[4].files, Script.name)
    /\ Len(sends) = 1 /\ Named(sends[1].files, Script.name)

(***************************************************************************)
(* The reply of a send.  The formulas below are about ClientSpec.          *)
(***************************************************************************)

\* The entry of the transcript that shows the reply text of a response.
AiEntry(out) == ChatMessage("ai", out.body.response.s, <<>>)

\* C22: the page appends the server's reply to the transcript if and only
\* if the response is JSON with an OK status, success true and a non-empty
\* reply text; in every other outcome, also for a 200 response with success
\* true and the empty reply text a handler returns when the backend gave
\* nothing usable, it appends the generic failure message and sets the
\* error banner instead.
C22_ReplyAppendedIffUsable ==
    [][SendSettles =>
           IF RequestFailed(outcome')
           THEN chat' = Append(chat, FailureMessage) /\ Truthy(error')
           ELSE chat' = Append(chat, AiEntry(outcome')) /\ error' = error]_vars

\* A handler answered 200 with success true and an empty reply text: the
\* transcript ends with the generic failure message and the banner is set.
C22_Witness ==
    /\ sends = <<>>
    /\ outcome = Returned(SuccessResponse("", 1))
    /\ outcome.status = 200 /\ outcome.body.success
    /\ chat[Len(chat)] = FailureMessage
    /\ error = Str("Invalid response format from server")

====
